---- MODULE Spec2Model ----
(***************************************************************************)
(* Request resolution in the sandbox service worker: the handler made by    *)
(* createFetchHandler (src/unnamed/part_002), the policy engine fetchCore    *)
(* (src/src/lib/fetchCore.ts) it hands the requests of other origins to,     *)
(* and the response and policy contracts of serviceWorkerMeta.               *)
(*                                                                          *)
(* A resolution is one call of the handler. The handler and fetchCore are    *)
(* async functions, so they run atomically from one await to the next; every *)
(* action below is one such run: the call up to its first await or return,   *)
(* or the continuation after a resolver promise settles up to the next await *)
(* or the return.                                                            *)
(* Response objects live in a heap, because cacheHit mutates the object it  *)
(* is handed and NOT_FOUND_RESPONSE is one object shared by every call.     *)
(***************************************************************************)
EXTENDS Integers, Sequences, FiniteSets, TLC

(***************************************************************************)
(* Bounds of the model.                                                     *)
(***************************************************************************)
\* fetch events handled in one behaviour
MaxCalls == 2

\* resolutions that can be in flight at the same time
Resolutions == {1, 2}

(***************************************************************************)
(* serviceWorkerMeta: header names and policy codes.                        *)
(***************************************************************************)
serviceWorkerCacheHitHeader == [key |-> "X-Cache-Hit", value |-> "SW HIT"]
serviceWorkerErrorCatchHeader == "Sw-Net-Err"
serviceWorkerPolicyHeader == "Sw-Policy"

NETWORK_FIRST_POLICY == 1
NETWORK_ONLY_POLICY == 2
CACHE_FIRST_POLICY == 3
CACHE_ONLY_POLICY == 4

\* Number.prototype.toString of a natural number, as a string of characters
DigitChars == <<"0", "1", "2", "3", "4", "5", "6", "7", "8", "9">>

RECURSIVE toString(_)
toString(n) ==
    IF n < 10 THEN <<DigitChars[n + 1]>>
    ELSE toString(n \div 10) \o <<DigitChars[(n % 10) + 1]>>

serviceWorkerPolicies ==
    [networkOnly  |-> toString(NETWORK_ONLY_POLICY),
     networkFirst |-> toString(NETWORK_FIRST_POLICY),
     cacheFirst   |-> toString(CACHE_FIRST_POLICY),
     cacheOnly    |-> toString(CACHE_ONLY_POLICY)]

CACHE_FIRST == serviceWorkerPolicies.cacheFirst

cachefirstTag == "cache-first"
cacheonlyTag == "cache-only"
networkfirstTag == "network-first"

(***************************************************************************)
(* Headers: an ordered list of <<name, value>> pairs. append adds a pair    *)
(* and keeps the ones already there; get yields the values of a name in    *)
(* order (the platform joins them with ", "); has tells whether there is    *)
(* one. Names are written the way the source writes them.                   *)
(***************************************************************************)
HeadersAppend(headers, name, value) == Append(headers, <<name, value>>)

RECURSIVE HeadersGet(_, _)
HeadersGet(headers, name) ==
    IF headers = <<>> THEN <<>>
    ELSE IF Head(headers)[1] = name
         THEN <<Head(headers)[2]>> \o HeadersGet(Tail(headers), name)
         ELSE HeadersGet(Tail(headers), name)

HeadersHas(headers, name) == HeadersGet(headers, name) # <<>>

(***************************************************************************)
(* parseInt(string, 10): leading white space is skipped, a sign is read,    *)
(* the longest prefix of decimal digits is the value; no digit gives NaN.   *)
(***************************************************************************)
IsDigit(c) == \E i \in 1..10 : DigitChars[i] = c
DigitValue(c) == (CHOOSE i \in 1..10 : DigitChars[i] = c) - 1

RECURSIVE SkipWhiteSpace(_)
SkipWhiteSpace(s) ==
    IF s # <<>> /\ Head(s) = " " THEN SkipWhiteSpace(Tail(s)) ELSE s

RECURSIVE DigitPrefix(_)
DigitPrefix(s) ==
    IF s # <<>> /\ IsDigit(Head(s)) THEN <<Head(s)>> \o DigitPrefix(Tail(s)) ELSE <<>>

RECURSIVE DecimalValue(_, _)
DecimalValue(s, acc) ==
    IF s = <<>> THEN acc ELSE DecimalValue(Tail(s), acc * 10 + DigitValue(Head(s)))

parseInt(str) ==
    LET t == SkipWhiteSpace(str)
        signed == t # <<>> /\ Head(t) \in {"-", "+"}
        digits == DigitPrefix(IF signed THEN Tail(t) ELSE t)
        magnitude == DecimalValue(digits, 0)
    IN IF digits = <<>> THEN [nan |-> TRUE, value |-> 0]
       ELSE [nan |-> FALSE,
             value |-> IF signed /\ Head(t) = "-" THEN 0 - magnitude ELSE magnitude]

(***************************************************************************)
(* Strings the router takes apart are sequences of characters. A run of     *)
(* characters that no operation here splits, escapes or decodes is written  *)
(* as one element ("index.js"); RunLength gives the characters it holds.    *)
(***************************************************************************)
TemplateHead == "<!DOCTYPE html>..<meta http-equiv=\"Content-Security-Policy\" content=\""
TemplateMiddle == "\"/>..<script entry=\""
TemplateTail == "\" id=\"root-script\" src=\"./secure.compiled.js\" type=\"module\" defer> </script>..</html>"
IndexHtmlText == "index.html as inlined"
SecureMjsText == "secure.compiled.js as inlined"

RunLength(c) ==
    CASE c = TemplateHead -> 283
      [] c = TemplateMiddle -> 38
      [] c = TemplateTail -> 92
      [] c = IndexHtmlText -> 120
      [] c = SecureMjsText -> 64
      [] c = "default-src" -> 11
      [] c = "'self'" -> 6
      [] c = "https" -> 5
      [] c = "pizza.com" -> 9
      [] c = "index.js" -> 8
      [] OTHER -> 1

\* the letter e with an acute accent (U+00E9): one character, two bytes
EAcute == "e-acute"

\* the bytes of a character in UTF-8
Utf8Bytes(c) == IF c = EAcute THEN 2 ELSE RunLength(c)

\* new TextEncoder().encode(str).length
RECURSIVE byteLength(_)
byteLength(str) == IF str = <<>> THEN 0 ELSE Utf8Bytes(Head(str)) + byteLength(Tail(str))

\* String.prototype.startsWith
startsWith(str, searchString) ==
    /\ Len(searchString) <= Len(str)
    /\ SubSeq(str, 1, Len(searchString)) = searchString

\* index of the first occurrence of a character, 0 when there is none
IndexOf(str, c) ==
    IF \E i \in 1..Len(str) : str[i] = c
    THEN CHOOSE i \in 1..Len(str) : str[i] = c /\ \A j \in 1..(i - 1) : str[j] # c
    ELSE 0

\* String.prototype.split with a one-character separator: the list of segments
RECURSIVE split(_, _)
split(str, separator) ==
    LET i == IndexOf(str, separator)
    IN IF i = 0 THEN <<str>>
       ELSE <<SubSeq(str, 1, i - 1)>> \o split(SubSeq(str, i + 1, Len(str)), separator)

(***************************************************************************)
(* Percent-encoding. PercentCodes lists, for the characters that occur      *)
(* here, the escape sequence of their UTF-8 bytes; Reserved are the ones    *)
(* encodeURIComponent escapes. An escape of the inputs below is always one  *)
(* of PercentCodes; a "%" that starts none of them is not followed by two   *)
(* hexadecimal digits.                                                       *)
(***************************************************************************)
PercentCodes ==
    {[char |-> " ", code |-> <<"%", "2", "0">>],
     [char |-> "%", code |-> <<"%", "2", "5">>],
     [char |-> "/", code |-> <<"%", "2", "F">>],
     [char |-> ":", code |-> <<"%", "3", "A">>],
     [char |-> ";", code |-> <<"%", "3", "B">>],
     [char |-> "A", code |-> <<"%", "4", "1">>],
     [char |-> EAcute, code |-> <<"%", "C", "3", "%", "A", "9">>]}

Reserved == {" ", "%", "/", ":", ";", EAcute}

CodeOf(c) == (CHOOSE p \in PercentCodes : p.char = c).code

RECURSIVE encodeURIComponent(_)
encodeURIComponent(str) ==
    IF str = <<>> THEN <<>>
    ELSE (IF Head(str) \in Reserved THEN CodeOf(Head(str)) ELSE <<Head(str)>>)
         \o encodeURIComponent(Tail(str))

\* the escape a string begins with, as a set of at most one element
EscapeAt(str) == {p \in PercentCodes : startsWith(str, p.code)}

\* decodeURIComponent: every escape is replaced by its character; a "%" that
\* starts no escape throws URIError
RECURSIVE decodeURIComponent(_)
decodeURIComponent(str) ==
    IF str = <<>> THEN [threw |-> FALSE, value |-> <<>>]
    ELSE IF EscapeAt(str) # {}
    THEN LET e == CHOOSE e \in EscapeAt(str) : TRUE
             rest == decodeURIComponent(SubSeq(str, Len(e.code) + 1, Len(str)))
         IN [threw |-> rest.threw, value |-> <<e.char>> \o rest.value]
    ELSE IF Head(str) = "%" THEN [threw |-> TRUE, value |-> <<>>]
    ELSE LET rest == decodeURIComponent(Tail(str))
         IN [threw |-> rest.threw, value |-> <<Head(str)>> \o rest.value]

\* the percent-decoding of the application/x-www-form-urlencoded parser: "+" is
\* a space, and a "%" that starts no escape stays as it is
RECURSIVE urlDecode(_)
urlDecode(str) ==
    IF str = <<>> THEN <<>>
    ELSE IF EscapeAt(str) # {}
    THEN LET e == CHOOSE e \in EscapeAt(str) : TRUE
         IN <<e.char>> \o urlDecode(SubSeq(str, Len(e.code) + 1, Len(str)))
    ELSE IF Head(str) = "+" THEN <<" ">> \o urlDecode(Tail(str))
    ELSE <<Head(str)>> \o urlDecode(Tail(str))

\* one name=value pair of a query: the text up to the first "=" and the text
\* after it, both decoded
Param(pair) ==
    LET i == IndexOf(pair, "=")
    IN IF i = 0 THEN [name |-> urlDecode(pair), value |-> <<>>]
       ELSE [name |-> urlDecode(SubSeq(pair, 1, i - 1)),
             value |-> urlDecode(SubSeq(pair, i + 1, Len(pair)))]

\* new URLSearchParams(init): a leading "?" is dropped, the rest is cut at
\* every "&", empty pieces are skipped
URLSearchParams(init) ==
    LET query == IF init # <<>> /\ Head(init) = "?" THEN Tail(init) ELSE init
        pairs == SelectSeq(split(query, "&"), LAMBDA p : p # <<>>)
    IN [i \in 1..Len(pairs) |-> Param(pairs[i])]

ParamsHas(params, name) == \E i \in 1..Len(params) : params[i].name = name

\* URLSearchParams.get: the first value of the name; absent is "" here, as
\* every caller writes params.get(name) || ""
ParamsGet(params, name) ==
    IF ParamsHas(params, name)
    THEN params[CHOOSE i \in 1..Len(params) :
                   params[i].name = name /\ \A j \in 1..(i - 1) : params[j].name # name].value
    ELSE <<>>

(***************************************************************************)
(* Responses. body is the text as a list of pieces; bodyUsed is set once    *)
(* the body stream has been read.                                           *)
(***************************************************************************)
Response(body, status, statusText, headers) ==
    [status |-> status, statusText |-> statusText, headers |-> headers,
     body |-> body, bodyUsed |-> FALSE]

\* Response.ok
ok(response) == response.status >= 200 /\ response.status <= 299

\* String(err) for the values a promise is rejected with here
String(err) ==
    IF err.type = "Error" THEN <<"Error: ", err.message>> ELSE <<err.message>>

\* cacheHit with headers.set in place of headers.append: a value already there is lost
cacheHit_Set(response) ==
    [response EXCEPT !.headers =
        HeadersAppend(SelectSeq(@, LAMBDA h : h[1] # serviceWorkerCacheHitHeader.key),
                      serviceWorkerCacheHitHeader.key,
                      serviceWorkerCacheHitHeader.value)]

\* cacheHit that hands the response back without marking it
cacheHit_Unmarked(response) == response

\* cacheHit that also makes the response a 200
cacheHit_StatusOk(response) ==
    [response EXCEPT !.status = 200,
                     !.headers = HeadersAppend(@, serviceWorkerCacheHitHeader.key,
                                               serviceWorkerCacheHitHeader.value)]

cacheHit(response) ==
    [response EXCEPT !.headers =
        HeadersAppend(@, serviceWorkerCacheHitHeader.key,
                      serviceWorkerCacheHitHeader.value)]

\* a not-found response that carries the Sw-Net-Err header
NOT_FOUND_RESPONSE_Tagged ==
    Response(<<"not found">>, 404, "NOT FOUND",
             << <<serviceWorkerErrorCatchHeader, "1">> >>)

NOT_FOUND_RESPONSE == Response(<<"not found">>, 404, "NOT FOUND", <<>>)

\* errorResponse without the Sw-Net-Err header
errorResponse_Untagged(err) ==
    Response(String(err), 500, "INTERNAL SERVER ERROR", <<>>)

\* errorResponse that also marks the response as a cache hit
errorResponse_MarkedHit(err) ==
    Response(String(err), 500, "INTERNAL SERVER ERROR",
             << <<serviceWorkerErrorCatchHeader, "1">>,
                <<serviceWorkerCacheHitHeader.key, serviceWorkerCacheHitHeader.value>> >>)

errorResponse(err) ==
    Response(String(err), 500, "INTERNAL SERVER ERROR",
             << <<serviceWorkerErrorCatchHeader, "1">> >>)

(***************************************************************************)
(* What the resolvers and the caller can hand to fetchCore.                 *)
(***************************************************************************)
Urls == {<<"https://cookies.com", "/", "index.js">>}
ClientIds == {"client-1"}

\* values of the Sw-Policy request header, as strings of characters
PolicyHeaderValues ==
    {serviceWorkerPolicies.networkOnly, serviceWorkerPolicies.networkFirst,
     serviceWorkerPolicies.cacheFirst, serviceWorkerPolicies.cacheOnly,
     <<"2", "a", "b", "c">>, <<"x">>}

RequestHeaders ==
    {<<>>} \cup {<< <<serviceWorkerPolicyHeader, v>> >> : v \in PolicyHeaderValues}

Requests == [url : Urls, headers : RequestHeaders]

NetStatuses == {200, 403, 500}
CacheStatuses == {200, 401}

NoReason == [type |-> "none", message |-> ""]
NetReasons == {[type |-> "Error", message |-> "network error"],
               [type |-> "string", message |-> "offline"]}
CacheReason == [type |-> "Error", message |-> "rpc failed"]
LogReason == [type |-> "Error", message |-> "log failed"]

NoResponse == Response(<<>>, 0, "", <<>>)

\* the responses the network resolver resolves with
NetResponses == {Response(<<"from network">>, s, "", <<>>) : s \in NetStatuses}

\* the file a client holds for the url: none, or a response of some status that
\* the cache resolver builds anew on every call or keeps as one stored object
CacheContents ==
    {[present |-> FALSE, status |-> 0, shared |-> FALSE]}
    \cup [present : {TRUE}, status : CacheStatuses, shared : BOOLEAN]

CachedResponse(content) == Response(<<"from cache">>, content.status, "", <<>>)

(***************************************************************************)
(* createFetchHandler: the urls the router tells apart, the documents it    *)
(* holds in memory and the template it renders. The inlined files are not   *)
(* part of the source tree; IndexHtmlText and SecureMjsText stand for their *)
(* text and the lengths are taken from that text as the build does.         *)
(***************************************************************************)
origin == <<"https://donuts.com">>
RUN_PROGRAM_PATHNAME == <<"/", "runProgram">>

rootDoc == origin \o <<"/">>
templateEndpoint == origin \o RUN_PROGRAM_PATHNAME
entryScript == origin \o <<"/", "secure.compiled.js">>
testScript == origin \o <<"/", "test.mjs">>

IndexHtml == <<IndexHtmlText>>
SecureMjs == <<SecureMjsText>>
INDEX_HTML_LENGTH == byteLength(IndexHtml)
SECURE_MJS_LENGTH == byteLength(SecureMjs)

generateTemplate(importSource, securityPolicy) ==
    <<TemplateHead>> \o securityPolicy \o <<TemplateMiddle>> \o importSource
        \o <<TemplateTail>>

\* {...a, ...b} of two header lists: a key of b that a has takes b's value at
\* a's place, the other keys of b follow
RECURSIVE Spread(_, _)
Spread(a, b) ==
    IF b = <<>> THEN a
    ELSE LET k == Head(b)[1]
             merged == IF \E i \in 1..Len(a) : a[i][1] = k
                       THEN [i \in 1..Len(a) |-> IF a[i][1] = k THEN Head(b) ELSE a[i]]
                       ELSE Append(a, Head(b))
         IN Spread(merged, Tail(b))

\* the inMemoryDocumentHeaders option as the service worker sets it (the first
\* and the third of its headers)
DocumentHeaders ==
    {<< <<"Cross-Origin-Embedder-Policy", "require-corp">>,
        <<"Cross-Origin-Resource-Policy", "cross-origin">> >>}

\* the texts a caller of the template endpoint wants embedded
SecurityPolicies ==
    {<<"default-src", " ", "'self'", ";">>,
     <<"%", "4", "1">>,
     <<"1", "0", "0", "%">>}
ImportSources ==
    {<<"index.js">>,
     <<"https", ":", "/", "/", "pizza.com", "/", EAcute, "index.js">>}

\* the pairs a caller asks for
TemplateInputs ==
    {t \in [csp : SecurityPolicies, entry : ImportSources] :
        t.csp = <<"default-src", " ", "'self'", ";">> \/ t.entry = <<"index.js">>}

TemplateQuery(csp, entry) ==
    <<"?", "csp", "=">> \o encodeURIComponent(csp)
        \o <<"&", "entry", "=">> \o encodeURIComponent(entry)

TemplateUrls ==
    {templateEndpoint,
     templateEndpoint \o <<"?">>,
     templateEndpoint \o <<"?", "csp", "=", "true">>,
     templateEndpoint \o <<"?", "entry", "=", "index.js">>}
    \cup {templateEndpoint \o TemplateQuery(t.csp, t.entry) : t \in TemplateInputs}

OtherSameOriginUrls ==
    {origin \o <<"/", "random.mjs">>,
     origin \o <<".evil.com", "/">>}

SameOriginUrls ==
    {rootDoc, entryScript, testScript}
    \cup TemplateUrls \cup OtherSameOriginUrls

\* the client of a navigation, which has no initiating client yet
ResultingClientIds == {"client-2"}

\* the fetch events of the service worker. Requests to the origin carry no
\* policy header. Requests elsewhere that carry a policy header are made by the
\* script of a client; one without the header is a navigation, which has no
\* client yet and names the client it will create.
Events ==
    [request : [url : SameOriginUrls, headers : {<<>>}]
                \cup {q \in Requests : q.headers # <<>>},
     clientId : ClientIds, resultingClientId : {""}]
    \cup [request : {q \in Requests : q.headers = <<>>},
          clientId : {""}, resultingClientId : ResultingClientIds]

\* urls of the origin that are near the urls the handler knows: the root
\* document with a query, and urls that go on after the template endpoint, the
\* entry script (a query) and the test script
RouteUrls ==
    {rootDoc,
     rootDoc \o <<"?", "x">>,
     templateEndpoint \o <<"Extra">>
        \o TemplateQuery(<<"default-src", " ", "'self'", ";">>, <<"index.js">>),
     entryScript \o <<"?", "v", "=", "1">>,
     testScript \o <<".map">>,
     origin \o <<"/", "random.mjs">>}

\* the policy headers a page may put on a request to the origin
RoutePolicyHeaders ==
    {<<>>,
     << <<serviceWorkerPolicyHeader, serviceWorkerPolicies.cacheOnly>> >>,
     << <<serviceWorkerPolicyHeader, serviceWorkerPolicies.networkFirst>> >>}

\* fetch events that try the routing of the handler: requests to the origin with
\* and without a policy header, and one request elsewhere for each policy
RouteEvents ==
    [request : [url : RouteUrls, headers : RoutePolicyHeaders]
                \cup [url : Urls,
                      headers : {<< <<serviceWorkerPolicyHeader, v>> >> :
                                    v \in {serviceWorkerPolicies.networkOnly,
                                           serviceWorkerPolicies.networkFirst,
                                           serviceWorkerPolicies.cacheOnly}}],
     clientId : ClientIds, resultingClientId : {""}]
    \cup [request : {q \in Requests : q.headers = <<>>},
          clientId : {""}, resultingClientId : ResultingClientIds]

NoEvent == [request |-> [url |-> <<>>, headers |-> <<>>], clientId |-> "",
            resultingClientId |-> ""]

(***************************************************************************)
(* Object references: the two objects every resolution can reach, and the   *)
(* objects a resolution gets for itself.                                     *)
(***************************************************************************)
NullRef == <<0, "null">>
NotFoundRef == <<0, "NOT_FOUND_RESPONSE">>
StoredRef == <<0, "stored">>
NetRef(r) == <<r, "network">>
CacheRef(r) == <<r, "cache">>
ErrorRef(r) == <<r, "error">>
DocumentRef(r) == <<r, "document">>
OwnRefs(r) == {NetRef(r), CacheRef(r), ErrorRef(r), DocumentRef(r)}
Refs == {NotFoundRef, StoredRef} \cup UNION {OwnRefs(r) : r \in Resolutions}

VARIABLES
    pc,        \* where each resolution stands: idle, network, cache, returned, threw
    event,     \* the fetch event each resolution answers
    inMemoryDocumentHeaders,  \* the option the handler was created with
    input,     \* the arguments of each call of fetchCore
    calls,     \* the resolver calls each resolution has made, in order
    netOut,    \* how the network promise of each resolution settled
    cacheOut,  \* how the cache promise of each resolution settled
    caught,    \* err of the catch block of the network-first case
    ret,       \* how the promise of the handler settled
    logged,    \* the lines each resolution handed to the log function
    heap,      \* the response objects
    cache,     \* the client's file for the url
    logFn,     \* what the log function does when called: "returns" or "throws"
    config,    \* the configuration the caller reads shouldLog from
    ncalls,    \* fetch events handled so far
    events,    \* the fetch events that can reach the service worker
    clientFile, \* the calls of getClientFile, the service worker's cache resolver
    sandbox,   \* the sandbox document: where its main stands and what it has done
    messages   \* the message events of the sandbox window

vars == <<pc, event, inMemoryDocumentHeaders, input, calls, netOut, cacheOut,
          caught, ret, logged, heap, cache, logFn, config, ncalls, events,
          clientFile, sandbox, messages>>

\* what no step of the handler changes: the traffic it is offered, the service
\* worker's own cache resolver and the sandbox document
outside == <<events, clientFile, sandbox, messages>>

\* what the steps of fetchCore leave alone of the handler that called it
handler == <<event, inMemoryDocumentHeaders, outside>>

NoInput == [request |-> [url |-> <<>>, headers |-> <<>>], targetClientId |-> "",
            shouldLog |-> FALSE]
NoOutcome == [state |-> "none", ref |-> NullRef, response |-> NoResponse,
              reason |-> NoReason]
Resolved(ref, response) ==
    [state |-> "resolved", ref |-> ref, response |-> response, reason |-> NoReason]
Rejected(reason) ==
    [state |-> "rejected", ref |-> NullRef, response |-> NoResponse, reason |-> reason]

\* the calls of getClientFile that can be in progress at once
Lookups == {1, 2}
\* what an RPC to the sandbox resolved with, by what the checks of getClientFile
\* look at: typeof file, the class of file.body, typeof file.type, typeof file.length
NoFile == [kind |-> "undefined", body |-> "undefined", typeofType |-> "undefined",
           type |-> <<>>, typeofLength |-> "undefined", length |-> 0]
NoLookup == [pc |-> "idle", url |-> <<>>, clientId |-> "", client |-> "",
             file |-> NoFile, outcome |-> NoOutcome]

\* the sandbox document before its entry script runs
NotLoaded == [pc |-> "load", ready |-> FALSE, registered |-> FALSE,
              executed |-> <<>>, resolved |-> {}, script |-> "none", mainCalls |-> 0]
\* no message event has reached the sandbox window
NoMessages == [arrived |-> 0, delivered |-> <<>>]

(***************************************************************************)
(* fetchCore: the policy of a request and the case of the switch it takes.  *)
(***************************************************************************)
\* request.headers.get(policyHeader) || CACHE_FIRST, then parseInt(.., 10)
policyOf(request) ==
    LET value == HeadersGet(request.headers, serviceWorkerPolicyHeader)
        policyString == IF value = <<>> \/ value[1] = <<>> THEN CACHE_FIRST
                        ELSE value[1]
    IN parseInt(policyString)

\* switch (policy)
caseOf(policy) ==
    IF policy.nan THEN "default"
    ELSE IF policy.value = NETWORK_ONLY_POLICY THEN "networkOnly"
    ELSE IF policy.value = NETWORK_FIRST_POLICY THEN "networkFirst"
    ELSE IF policy.value = CACHE_ONLY_POLICY THEN "cacheOnly"
    ELSE "default"

\* a handler that takes a url for its own only if the origin is followed by "/"
routeOf_OriginThenSlash(url) ==
    IF startsWith(url, origin \o <<"/">>)
    THEN IF url = rootDoc THEN "rootDoc"
         ELSE IF startsWith(url, templateEndpoint) THEN "templateEndpoint"
         ELSE IF startsWith(url, entryScript) THEN "entryScript"
         ELSE IF startsWith(url, testScript) THEN "testScript"
         ELSE "notFound"
    ELSE "fetchCore"

\* a handler that takes the root document with a query for the root document
routeOf_RootIgnoresQuery(url) ==
    IF startsWith(url, origin)
    THEN IF url = rootDoc \/ startsWith(url, rootDoc \o <<"?">>) THEN "rootDoc"
         ELSE IF startsWith(url, templateEndpoint) THEN "templateEndpoint"
         ELSE IF startsWith(url, entryScript) THEN "entryScript"
         ELSE IF startsWith(url, testScript) THEN "testScript"
         ELSE "notFound"
    ELSE "fetchCore"

\* the branch of the handler a request url takes
routeOf(url) ==
    IF startsWith(url, origin)
    THEN IF url = rootDoc THEN "rootDoc"
         ELSE IF startsWith(url, templateEndpoint) THEN "templateEndpoint"
         ELSE IF startsWith(url, entryScript) THEN "entryScript"
         ELSE IF startsWith(url, testScript) THEN "testScript"
         ELSE "notFound"
    ELSE "fetchCore"

route(r) == IF pc[r] = "idle" THEN "none" ELSE routeOf(event[r].request.url)

\* the case of the switch a resolution that is in fetchCore takes
branch(r) ==
    IF route(r) = "fetchCore" THEN caseOf(policyOf(input[r].request)) ELSE "none"

\* the network-only case asking the cache like the cases below it
firstAwait_NetworkOnlyAsksCache(case) ==
    IF case = "networkFirst" THEN "network" ELSE "cache"

\* the resolver a case calls and awaits first
firstAwait(case) ==
    IF case \in {"networkOnly", "networkFirst"} THEN "network" ELSE "cache"

\* every case serving whatever entry the cache holds, as cache-only does
servesCached_AnyStatus(case, cached) == cached.ref # NullRef

\* every case asking for cached.ok, cache-only too
servesCached_OkOnly(case, cached) == cached.ref # NullRef /\ ok(cached.response)

\* the test a case makes on the value the cache resolver resolved with before
\* it returns cacheHit(cached)
servesCached(case, cached) ==
    IF case = "cacheOnly" THEN cached.ref # NullRef
    ELSE cached.ref # NullRef /\ ok(cached.response)

\* safeRequest taking a response that is not ok for a failure
safeRequest_RejectsNonOk(r, request) ==
    IF request.state = "resolved" /\ ok(request.response) THEN request
    ELSE Resolved(ErrorRef(r), errorResponse(request.reason))

\* safeRequest: the awaited response, or errorResponse(err) when it rejects
safeRequest(r, request) ==
    IF request.state = "resolved" THEN request
    ELSE Resolved(ErrorRef(r), errorResponse(request.reason))

\* logRequest that hands the line to logFn whether or not shouldLog is set
logRequest_IgnoresShouldLog(tag, request, log, shouldLog, cached) ==
    IF log = "throws" THEN [threw |-> TRUE, lines |-> <<>>]
    ELSE [threw |-> FALSE,
          lines |-> <<[tag |-> tag, url |-> request.url,
                       cache_hit |-> cached.ref # NullRef,
                       cache_status |-> IF cached.ref # NullRef
                                        THEN cached.response.status ELSE 0]>>]

\* logRequest: with shouldLog, one line goes to logFn (request.mode and
\* request.destination are left out of the line); cache_status 0 stands for "none"
logRequest(tag, request, log, shouldLog, cached) ==
    IF ~shouldLog THEN [threw |-> FALSE, lines |-> <<>>]
    ELSE IF log = "throws" THEN [threw |-> TRUE, lines |-> <<>>]
    ELSE [threw |-> FALSE,
          lines |-> <<[tag |-> tag, url |-> request.url,
                       cache_hit |-> cached.ref # NullRef,
                       cache_status |-> IF cached.ref # NullRef
                                        THEN cached.response.status ELSE 0]>>]

networkFetch(request) == [fn |-> "networkFetch", url |-> request.url, clientId |-> ""]
getFile(url, clientId) == [fn |-> "getFile", url |-> url, clientId |-> clientId]

\* how a call of the network resolver made by resolution r can settle
NetOutcomes(r) ==
    {Resolved(NetRef(r), response) : response \in NetResponses}
    \cup {Rejected(reason) : reason \in NetReasons}

\* how a call of the cache resolver made by resolution r can settle
CacheOutcomes(r) ==
    {Rejected(CacheReason),
     IF ~cache.present THEN Resolved(NullRef, NoResponse)
     ELSE IF cache.shared THEN Resolved(StoredRef, heap[StoredRef])
     ELSE Resolved(CacheRef(r), CachedResponse(cache))}

\* the heap once the object an outcome refers to is in it
Store(h, outcome) ==
    IF outcome.state = "resolved" /\ outcome.ref # NullRef
    THEN [h EXCEPT ![outcome.ref] = outcome.response] ELSE h

(***************************************************************************)
(* How a run of the handler or of fetchCore ends or suspends.               *)
(***************************************************************************)
\* return of a response object
Return(r, h, ref) ==
    /\ pc' = [pc EXCEPT ![r] = "returned"]
    /\ ret' = [ret EXCEPT ![r] = Resolved(ref, h[ref])]
    /\ heap' = h

\* an exception leaves the handler or fetchCore: the promise rejects
Throw(r, h, reason) ==
    /\ pc' = [pc EXCEPT ![r] = "threw"]
    /\ ret' = [ret EXCEPT ![r] = Rejected(reason)]
    /\ heap' = h

\* a resolver call that joins the pending call another resolution has made of the
\* same resolver for the same url instead of calling the resolver again
Await_Coalesced(r, h, resolver, in) ==
    /\ pc' = [pc EXCEPT ![r] = resolver]
    /\ calls' = IF \E q \in Resolutions \ {r} :
                        /\ pc[q] = resolver
                        /\ calls[q] # <<>>
                        /\ calls[q][Len(calls[q])].url = in.request.url
                THEN calls
                ELSE [calls EXCEPT ![r] =
                        Append(@, IF resolver = "network"
                                  THEN networkFetch(in.request)
                                  ELSE getFile(in.request.url, in.targetClientId))]
    /\ heap' = h
    /\ UNCHANGED ret

\* a resolver is called and its promise awaited
Await(r, h, resolver, in) ==
    /\ pc' = [pc EXCEPT ![r] = resolver]
    /\ calls' = [calls EXCEPT ![r] =
                    Append(@, IF resolver = "network"
                              THEN networkFetch(in.request)
                              ELSE getFile(in.request.url, in.targetClientId))]
    /\ heap' = h
    /\ UNCHANGED ret

Log(r, lg) == logged' = [logged EXCEPT ![r] = @ \o lg.lines]

(***************************************************************************)
(* The state after the module is loaded and before any request: the one     *)
(* NOT_FOUND_RESPONSE object exists, and the client's stored file if the     *)
(* cache resolver keeps one.                                                 *)
(***************************************************************************)
InitWith(logs, traffic) ==
    /\ events = traffic
    /\ clientFile = [k \in Lookups |-> NoLookup]
    /\ sandbox = NotLoaded
    /\ messages = NoMessages
    /\ pc = [r \in Resolutions |-> "idle"]
    /\ event = [r \in Resolutions |-> NoEvent]
    /\ inMemoryDocumentHeaders \in DocumentHeaders
    /\ input = [r \in Resolutions |-> NoInput]
    /\ calls = [r \in Resolutions |-> <<>>]
    /\ netOut = [r \in Resolutions |-> NoOutcome]
    /\ cacheOut = [r \in Resolutions |-> NoOutcome]
    /\ caught = [r \in Resolutions |-> NoReason]
    /\ ret = [r \in Resolutions |-> NoOutcome]
    /\ logged = [r \in Resolutions |-> <<>>]
    /\ cache \in CacheContents
    /\ heap = [ref \in Refs |->
                IF ref = NotFoundRef THEN NOT_FOUND_RESPONSE
                ELSE IF ref = StoredRef /\ cache.present /\ cache.shared
                     THEN CachedResponse(cache)
                ELSE NoResponse]
    /\ logFn \in logs
    /\ config \in [log : BOOLEAN]
    /\ ncalls = 0

\* the log functions of the repository (console.info, console.log, () => {})
Init == InitWith({"returns"}, Events)

(***************************************************************************)
(* fetchCore is called: the policy is read and the case runs to its first   *)
(* await. Only the network-only case logs before it awaits.                 *)
(***************************************************************************)
fetchCore(r, in) ==
    LET case == caseOf(policyOf(in.request))
        lg == IF case = "networkOnly"
              THEN logRequest(networkfirstTag, in.request, logFn, in.shouldLog, NoOutcome)
              ELSE [threw |-> FALSE, lines |-> <<>>]
    IN /\ input' = [input EXCEPT ![r] = in]
       /\ Log(r, lg)
       /\ IF lg.threw THEN Throw(r, heap, LogReason) /\ UNCHANGED calls
          ELSE Await(r, heap, firstAwait(case), in)

\* return await safeRequest(networkFetch(request)), once the network promise settles
SafeRequestSettled(r) ==
    \E out \in NetOutcomes(r) :
        LET res == safeRequest(r, out)
        IN /\ netOut' = [netOut EXCEPT ![r] = out]
           /\ Return(r, Store(heap, res), res.ref)
           /\ UNCHANGED <<input, calls, cacheOut, caught, logged, cache, logFn, config, ncalls, handler>>

NetworkOnlySettled(r) ==
    /\ pc[r] = "network"
    /\ branch(r) = "networkOnly"
    /\ SafeRequestSettled(r)

\* network-first taking a response that is not ok for a failure of the network
NetworkFirstResolved_NonOkFallsBack(r) ==
    /\ pc[r] = "network"
    /\ branch(r) = "networkFirst"
    /\ \E out \in NetOutcomes(r) :
        LET lg == logRequest(networkfirstTag, input[r].request, logFn,
                             input[r].shouldLog, NoOutcome)
        IN /\ out.state = "resolved"
           /\ netOut' = [netOut EXCEPT ![r] = out]
           /\ IF lg.threw \/ ~ok(out.response)
              THEN /\ caught' = [caught EXCEPT ![r] = LogReason]
                   /\ Await(r, Store(heap, out), "cache", input[r])
                   /\ UNCHANGED logged
              ELSE /\ Log(r, lg)
                   /\ Return(r, Store(heap, out), out.ref)
                   /\ UNCHANGED <<caught, calls>>
           /\ UNCHANGED <<input, cacheOut, cache, logFn, config, ncalls, handler>>

\* network-first: the awaited network promise resolves inside the try block
NetworkFirstResolved(r) ==
    /\ pc[r] = "network"
    /\ branch(r) = "networkFirst"
    /\ \E out \in NetOutcomes(r) :
        LET lg == logRequest(networkfirstTag, input[r].request, logFn,
                             input[r].shouldLog, NoOutcome)
        IN /\ out.state = "resolved"
           /\ netOut' = [netOut EXCEPT ![r] = out]
           /\ Log(r, lg)
           /\ IF lg.threw
              THEN /\ caught' = [caught EXCEPT ![r] = LogReason]
                   /\ Await(r, Store(heap, out), "cache", input[r])
              ELSE /\ Return(r, Store(heap, out), out.ref)
                   /\ UNCHANGED <<caught, calls>>
           /\ UNCHANGED <<input, cacheOut, cache, logFn, config, ncalls, handler>>

\* network-first: the awaited network promise rejects, the catch block asks the cache
NetworkFirstRejected(r) ==
    /\ pc[r] = "network"
    /\ branch(r) = "networkFirst"
    /\ \E out \in NetOutcomes(r) :
        /\ out.state = "rejected"
        /\ netOut' = [netOut EXCEPT ![r] = out]
        /\ caught' = [caught EXCEPT ![r] = out.reason]
        /\ Await(r, heap, "cache", input[r])
        /\ UNCHANGED <<input, cacheOut, logged, cache, logFn, config, ncalls, handler>>

\* a case goes on after await fileCache.getFile(..): a rejection leaves fetchCore,
\* otherwise the line is logged and cacheHit(cached) is returned if the case serves
\* the cached value; miss tells what the case does if it does not
Cached(r, tag, cached, miss) ==
    LET lg == logRequest(tag, input[r].request, logFn, input[r].shouldLog, cached)
        h == Store(heap, cached)
    IN /\ cacheOut' = [cacheOut EXCEPT ![r] = cached]
       /\ IF cached.state = "rejected"
          THEN Throw(r, heap, cached.reason) /\ UNCHANGED <<logged, calls>>
          ELSE /\ Log(r, lg)
               /\ IF lg.threw THEN Throw(r, h, LogReason) /\ UNCHANGED calls
                  ELSE IF servesCached(branch(r), cached)
                  THEN /\ Return(r, [h EXCEPT ![cached.ref] = cacheHit(@)], cached.ref)
                       /\ UNCHANGED calls
                  ELSE IF miss = "error"
                  THEN /\ Return(r, [h EXCEPT ![ErrorRef(r)] = errorResponse(caught[r])],
                                 ErrorRef(r))
                       /\ UNCHANGED calls
                  ELSE IF miss = "not found"
                  THEN Return(r, h, NotFoundRef) /\ UNCHANGED calls
                  ELSE Await(r, h, "network", input[r])
       /\ UNCHANGED <<input, netOut, caught, cache, logFn, config, ncalls, handler>>

\* network-first trying the network once more when the cache cannot serve
NetworkFirstCached_RetriesNetwork(r) ==
    /\ pc[r] = "cache"
    /\ branch(r) = "networkFirst"
    /\ \E cached \in CacheOutcomes(r) : Cached(r, networkfirstTag, cached, "network")

\* network-first, catch block: the cache promise settles
NetworkFirstCached(r) ==
    /\ pc[r] = "cache"
    /\ branch(r) = "networkFirst"
    /\ \E cached \in CacheOutcomes(r) : Cached(r, networkfirstTag, cached, "error")

\* cache-only going to the network on a miss, as cache-first does
CacheOnlyCached_FallsBackToNetwork(r) ==
    /\ pc[r] = "cache"
    /\ branch(r) = "cacheOnly"
    /\ \E cached \in CacheOutcomes(r) : Cached(r, cacheonlyTag, cached, "network")

\* cache-only: the cache promise settles
CacheOnlyCached(r) ==
    /\ pc[r] = "cache"
    /\ branch(r) = "cacheOnly"
    /\ \E cached \in CacheOutcomes(r) : Cached(r, cacheonlyTag, cached, "not found")

\* default case (cache-first): the cache promise settles
CacheFirstCached(r) ==
    /\ pc[r] = "cache"
    /\ branch(r) = "default"
    /\ \E cached \in CacheOutcomes(r) : Cached(r, cachefirstTag, cached, "network")

\* the fallback of cache-first without safeRequest: a rejection leaves fetchCore
CacheFirstSettled_Unsafe(r) ==
    /\ pc[r] = "network"
    /\ branch(r) = "default"
    /\ \E out \in NetOutcomes(r) :
        /\ netOut' = [netOut EXCEPT ![r] = out]
        /\ IF out.state = "resolved" THEN Return(r, Store(heap, out), out.ref)
           ELSE Throw(r, heap, out.reason)
        /\ UNCHANGED <<input, calls, cacheOut, caught, logged, cache, logFn, config, ncalls, handler>>

\* default case (cache-first): the network promise of the fallback settles
CacheFirstSettled(r) ==
    /\ pc[r] = "network"
    /\ branch(r) = "default"
    /\ SafeRequestSettled(r)

(***************************************************************************)
(* The handler createFetchHandler returns. Requests to the origin are       *)
(* answered by the handler itself, all others by fetchCore with the cache    *)
(* of the client the event names.                                            *)
(***************************************************************************)
\* an in-memory document without the inMemoryDocumentHeaders
InMemoryDocument_NoDocumentHeaders(body, contentType, contentLength, documentHeaders) ==
    Response(body, 200, "OK",
             << <<"content-type", contentType>>,
                <<"content-length", toString(contentLength)>> >>)

\* new Response(body, {status: 200, statusText: "OK", headers: {"content-type":
\* .., "content-length": .., ...inMemoryDocumentHeaders}})
InMemoryDocument(body, contentType, contentLength, documentHeaders) ==
    Response(body, 200, "OK",
             Spread(<< <<"content-type", contentType>>,
                       <<"content-length", toString(contentLength)>> >>,
                    documentHeaders))

URIError == [type |-> "URIError", message |-> "URI malformed"]

\* a template branch that renders whatever the query holds, "" for a parameter
\* that is not there
templateEndpointResponse_NoParamCheck(request, documentHeaders) ==
    LET query == split(request.url, "?")
        params == URLSearchParams(<<"?">> \o query[2])
        securityPolicy == decodeURIComponent(ParamsGet(params, <<"csp">>))
        importSource == decodeURIComponent(ParamsGet(params, <<"entry">>))
        templateText == generateTemplate(importSource.value, securityPolicy.value)
    IN IF Len(query) < 2
       THEN [threw |-> FALSE, error |-> TRUE,
             response |-> errorResponse([type |-> "string",
                                         message |-> "template endpoint must have query"])]
       ELSE IF securityPolicy.threw \/ importSource.threw
       THEN [threw |-> TRUE, error |-> FALSE, response |-> NoResponse]
       ELSE [threw |-> FALSE, error |-> FALSE,
             response |-> InMemoryDocument(templateText, "text/html",
                                           byteLength(templateText), documentHeaders)]

\* the template branch: what it returns, or that decodeURIComponent threw
templateEndpointResponse(request, documentHeaders) ==
    LET query == split(request.url, "?")
        params == URLSearchParams(<<"?">> \o query[2])
        securityPolicy == decodeURIComponent(ParamsGet(params, <<"csp">>))
        importSource == decodeURIComponent(ParamsGet(params, <<"entry">>))
        templateText == generateTemplate(importSource.value, securityPolicy.value)
        usage(message) ==
            [threw |-> FALSE, error |-> TRUE,
             response |-> errorResponse([type |-> "string", message |-> message])]
    IN IF Len(query) < 2 THEN usage("template endpoint must have query")
       ELSE IF ~ParamsHas(params, <<"csp">>) \/ ~ParamsHas(params, <<"entry">>)
       THEN usage("template endpoint have both an 'csp' and 'entry' query")
       ELSE IF securityPolicy.threw \/ importSource.threw
       THEN [threw |-> TRUE, error |-> FALSE, response |-> NoResponse]
       ELSE [threw |-> FALSE, error |-> FALSE,
             response |-> InMemoryDocument(templateText, "text/html",
                                           byteLength(templateText), documentHeaders)]

\* a handler that keys the cache by event.clientId alone
targetClientIdOf_ClientIdOnly(ev) == ev.clientId

\* a handler that asks the network for the incoming request of the entry script
entryScriptFetch_IncomingRequest(request) == request

\* networkFetch(entryScript): what the entry-script branch asks the network for,
\* the url string of the entry script whatever the incoming request is
entryScriptFetch(request) == [url |-> entryScript, headers |-> <<>>]

\* event.clientId || event.resultingClientId
targetClientIdOf(ev) ==
    IF ev.clientId # "" THEN ev.clientId ELSE ev.resultingClientId

\* a fetch event arrives: the handler runs to its first await or to its return.
\* The resolution takes the first free place of Resolutions.
fetchHandler(r) ==
    /\ pc[r] = "idle"
    /\ \A q \in Resolutions : q < r => pc[q] # "idle"
    /\ ncalls < MaxCalls
    /\ \E ev \in events :
        LET request == ev.request
            to == routeOf(request.url)
            template == templateEndpointResponse(request, inMemoryDocumentHeaders)
            ref == IF template.error THEN ErrorRef(r) ELSE DocumentRef(r)
        IN /\ event' = [event EXCEPT ![r] = ev]
           /\ ncalls' = ncalls + 1
           /\ UNCHANGED <<netOut, cacheOut, caught, cache, logFn, config,
                          inMemoryDocumentHeaders, outside>>
           /\ CASE to = "rootDoc" ->
                    /\ Await(r, heap, "network", [request |-> request])
                    /\ UNCHANGED <<input, logged>>
                [] to = "templateEndpoint" ->
                    /\ IF template.threw THEN Throw(r, heap, URIError)
                       ELSE Return(r, [heap EXCEPT ![ref] = template.response], ref)
                    /\ UNCHANGED <<input, logged, calls>>
                [] to = "entryScript" ->
                    /\ Await(r, heap, "network", [request |-> entryScriptFetch(request)])
                    /\ UNCHANGED <<input, logged>>
                [] to = "testScript" ->
                    /\ Await(r, heap, "network", [request |-> request])
                    /\ UNCHANGED <<input, logged>>
                [] to = "notFound" ->
                    /\ Return(r, heap, NotFoundRef)
                    /\ UNCHANGED <<input, logged, calls>>
                [] to = "fetchCore" ->
                    fetchCore(r, [request |-> request,
                                  targetClientId |-> targetClientIdOf(ev),
                                  shouldLog |-> config.log])

\* the in-memory document served for every response of the network that is not ok
NetworkOrInMemory_NonOkFallsBack(r, document) ==
    \E out \in NetOutcomes(r) :
        /\ netOut' = [netOut EXCEPT ![r] = out]
        /\ IF out.state = "resolved" /\ ok(out.response)
           THEN Return(r, Store(heap, out), out.ref)
           ELSE Return(r, [heap EXCEPT ![DocumentRef(r)] = cacheHit(document)],
                       DocumentRef(r))
        /\ UNCHANGED <<input, calls, cacheOut, caught, logged, cache, logFn, config,
                       ncalls, handler>>

\* a handler that puts the inMemoryDocumentHeaders on the response of the network too
NetworkOrInMemory_HeadersOnNetworkToo(r, document) ==
    \E out \in NetOutcomes(r) :
        /\ netOut' = [netOut EXCEPT ![r] = out]
        /\ IF out.state = "resolved"
           THEN Return(r, [heap EXCEPT ![out.ref] =
                               [out.response EXCEPT !.headers =
                                   Spread(@, inMemoryDocumentHeaders)]],
                       out.ref)
           ELSE Return(r, [heap EXCEPT ![DocumentRef(r)] = cacheHit(document)],
                       DocumentRef(r))
        /\ UNCHANGED <<input, calls, cacheOut, caught, logged, cache, logFn, config,
                       ncalls, handler>>

\* try { return await networkFetch(..) } catch { return cacheHit(inMemory..) }
NetworkOrInMemory(r, document) ==
    \E out \in NetOutcomes(r) :
        /\ netOut' = [netOut EXCEPT ![r] = out]
        /\ IF out.state = "resolved" THEN Return(r, Store(heap, out), out.ref)
           ELSE Return(r, [heap EXCEPT ![DocumentRef(r)] = cacheHit(document)],
                       DocumentRef(r))
        /\ UNCHANGED <<input, calls, cacheOut, caught, logged, cache, logFn, config,
                       ncalls, handler>>

\* a root document branch that heeds the policy header: under cache-only the
\* response of the network is not passed on
RootDocSettled_HeedsPolicy(r) ==
    /\ pc[r] = "network"
    /\ route(r) = "rootDoc"
    /\ IF caseOf(policyOf(event[r].request)) = "cacheOnly"
       THEN \E out \in NetOutcomes(r) :
                /\ netOut' = [netOut EXCEPT ![r] = out]
                /\ Return(r, heap, NotFoundRef)
                /\ UNCHANGED <<input, calls, cacheOut, caught, logged, cache, logFn,
                               config, ncalls, handler>>
       ELSE NetworkOrInMemory(r, InMemoryDocument(IndexHtml, "text/html",
                                                  INDEX_HTML_LENGTH,
                                                  inMemoryDocumentHeaders))

\* root document: the network promise settles
RootDocSettled(r) ==
    /\ pc[r] = "network"
    /\ route(r) = "rootDoc"
    /\ NetworkOrInMemory(r, InMemoryDocument(IndexHtml, "text/html", INDEX_HTML_LENGTH,
                                             inMemoryDocumentHeaders))

\* the entry script falling back to the in-memory root document
EntryScriptSettled_ServesIndexHtml(r) ==
    /\ pc[r] = "network"
    /\ route(r) = "entryScript"
    /\ NetworkOrInMemory(r, InMemoryDocument(IndexHtml, "text/html", INDEX_HTML_LENGTH,
                                             inMemoryDocumentHeaders))

\* entry script: the network promise settles
EntryScriptSettled(r) ==
    /\ pc[r] = "network"
    /\ route(r) = "entryScript"
    /\ NetworkOrInMemory(r, InMemoryDocument(SecureMjs, "text/javascript",
                                             SECURE_MJS_LENGTH, inMemoryDocumentHeaders))

\* the test script guarded as the network-only policy is: a rejection of the
\* network becomes an error response
TestScriptSettled_CatchesRejection(r) ==
    /\ pc[r] = "network"
    /\ route(r) = "testScript"
    /\ SafeRequestSettled(r)

\* test script: return networkFetch(request), the handler's promise settles as
\* the network promise does
TestScriptSettled(r) ==
    /\ pc[r] = "network"
    /\ route(r) = "testScript"
    /\ \E out \in NetOutcomes(r) :
        /\ netOut' = [netOut EXCEPT ![r] = out]
        /\ IF out.state = "resolved" THEN Return(r, Store(heap, out), out.ref)
           ELSE Throw(r, heap, out.reason)
        /\ UNCHANGED <<input, calls, cacheOut, caught, logged, cache, logFn, config,
                       ncalls, handler>>

(***************************************************************************)
(* The caller takes what the promise of the handler settled with: a response   *)
(* is handed to the page, which reads its body. The resolution is over and   *)
(* its own objects are dropped.                                              *)
(***************************************************************************)
respondWith(r) ==
    /\ pc[r] \in {"returned", "threw"}
    /\ heap' = [ref \in Refs |->
                 IF ref \in OwnRefs(r) THEN NoResponse
                 ELSE IF pc[r] = "returned" /\ ref = ret[r].ref
                      THEN [heap[ref] EXCEPT !.bodyUsed = TRUE]
                 ELSE heap[ref]]
    /\ pc' = [pc EXCEPT ![r] = "idle"]
    /\ event' = [event EXCEPT ![r] = NoEvent]
    /\ input' = [input EXCEPT ![r] = NoInput]
    /\ calls' = [calls EXCEPT ![r] = <<>>]
    /\ netOut' = [netOut EXCEPT ![r] = NoOutcome]
    /\ cacheOut' = [cacheOut EXCEPT ![r] = NoOutcome]
    /\ caught' = [caught EXCEPT ![r] = NoReason]
    /\ ret' = [ret EXCEPT ![r] = NoOutcome]
    /\ logged' = [logged EXCEPT ![r] = <<>>]
    /\ UNCHANGED <<cache, logFn, config, ncalls, inMemoryDocumentHeaders, outside>>

Next ==
    \E r \in Resolutions :
        \/ fetchHandler(r)
        \/ RootDocSettled(r)
        \/ EntryScriptSettled(r)
        \/ TestScriptSettled(r)
        \/ NetworkOnlySettled(r)
        \/ NetworkFirstResolved(r)
        \/ NetworkFirstRejected(r)
        \/ NetworkFirstCached(r)
        \/ CacheOnlyCached(r)
        \/ CacheFirstCached(r)
        \/ CacheFirstSettled(r)
        \/ respondWith(r)

Spec == Init /\ [][Next]_vars

\* some call of the network or the cache resolver that r awaits settles, and r
\* runs to its next await or to its end
Settles(r) ==
    \/ RootDocSettled(r)
    \/ EntryScriptSettled(r)
    \/ TestScriptSettled(r)
    \/ NetworkOnlySettled(r)
    \/ NetworkFirstResolved(r)
    \/ NetworkFirstRejected(r)
    \/ NetworkFirstCached(r)
    \/ CacheOnlyCached(r)
    \/ CacheFirstCached(r)
    \/ CacheFirstSettled(r)

\* the same program with resolvers whose every call settles in the end: no
\* resolution waits for ever on a call that could settle. The handler has no
\* timer and cancels nothing, so nothing else moves a waiting resolution.
\* The requests are those that make the handler wait: the root document, the
\* entry script, the test script and requests to other origins with no policy
\* header or one that names a policy. The cache resolver is the service
\* worker's, which builds a new Response on every call, and logging is off as
\* the service worker configures it.
WaitingEvents ==
    {ev \in Events :
        /\ ev.request.url \in {rootDoc, entryScript, testScript} \cup Urls
        /\ \A i \in DOMAIN ev.request.headers :
                ev.request.headers[i][2] \in
                    {serviceWorkerPolicies.networkOnly, serviceWorkerPolicies.networkFirst,
                     serviceWorkerPolicies.cacheOnly}}

InitFair == InitWith({"returns"}, WaitingEvents) /\ ~config.log /\ ~cache.shared

SpecFair == InitFair /\ [][Next]_vars /\ \A r \in Resolutions : WF_vars(Settles(r))

\* fetchCore takes any function as log: the same program with callers whose log
\* function may throw when it is called
InitAnyLog == InitWith({"returns", "throws"}, Events)

SpecAnyLog == InitAnyLog /\ [][Next]_vars

\* the same handler offered the requests of RouteEvents, logging off as the
\* service worker configures it
InitRoutes == InitWith({"returns"}, RouteEvents) /\ ~config.log

SpecRoutes == InitRoutes /\ [][Next]_vars

(***************************************************************************)
(* Vocabulary of the properties.                                            *)
(***************************************************************************)
RECURSIVE CountCalls(_, _)
CountCalls(cs, fn) ==
    IF cs = <<>> THEN 0
    ELSE (IF Head(cs).fn = fn THEN 1 ELSE 0) + CountCalls(Tail(cs), fn)

\* resolution r is a call of fetchCore that has begun
InFetchCore(r) == route(r) = "fetchCore"

NetCalls(r) == CountCalls(calls[r], "networkFetch")
CacheCalls(r) == CountCalls(calls[r], "getFile")

NetResolved(r) == netOut[r].state = "resolved"
NetRejected(r) == netOut[r].state = "rejected"
\* the cache resolver resolved with an entry (of any status), or with null
CacheEntry(r) == cacheOut[r].state = "resolved" /\ cacheOut[r].ref # NullRef
CacheNull(r) == cacheOut[r].state = "resolved" /\ cacheOut[r].ref = NullRef
Is2xx(response) == response.status \in 200..299

HasCacheHitHeader(response) == HeadersHas(response.headers, "X-Cache-Hit")
HasNetErrHeader(response) == HeadersHas(response.headers, "Sw-Net-Err")

\* fetchCore resolved to a 500 tagged Sw-Net-Err whose body is the text of reason
ReturnedErrorFor(r, reason) ==
    /\ pc[r] = "returned"
    /\ ret[r].state = "resolved"
    /\ ret[r].ref \notin {netOut[r].ref, cacheOut[r].ref, NotFoundRef}
    /\ ret[r].response.status = 500
    /\ HeadersGet(ret[r].response.headers, "Sw-Net-Err") = <<"1">>
    /\ ~HasCacheHitHeader(ret[r].response)
    /\ ret[r].response.body = IF reason.type = "Error"
                              THEN <<"Error: ", reason.message>>
                              ELSE <<reason.message>>

\* fetchCore resolved to the very object the network resolver resolved with, as
\* the resolver handed it over
ReturnedNetworkVerbatim(r) ==
    /\ pc[r] = "returned"
    /\ ret[r].state = "resolved"
    /\ ret[r].ref = netOut[r].ref
    /\ ret[r].response = netOut[r].response
    /\ heap[ret[r].ref] = netOut[r].response
    /\ ret[r].response.status = netOut[r].response.status
    /\ HasCacheHitHeader(ret[r].response) = HasCacheHitHeader(netOut[r].response)
    /\ HasNetErrHeader(ret[r].response) = HasNetErrHeader(netOut[r].response)

\* fetchCore resolved to the very object the cache resolver resolved with, its
\* status and body as handed over and one X-Cache-Hit: SW HIT added after the
\* headers it had
ReturnedCacheHit(r) ==
    /\ pc[r] = "returned"
    /\ ret[r].state = "resolved"
    /\ ret[r].ref = cacheOut[r].ref
    /\ ret[r].response.status = cacheOut[r].response.status
    /\ ret[r].response.body = cacheOut[r].response.body
    /\ ret[r].response.headers =
           cacheOut[r].response.headers \o << <<"X-Cache-Hit", "SW HIT">> >>

(***************************************************************************)
(* C1. Under the NetworkOnly policy fetchCore calls the network resolver     *)
(* exactly once and never the cache resolver, whether the network call       *)
(* resolves (with any status) or rejects.                                    *)
(***************************************************************************)
C1_NetworkOnlyCallsNetworkOnce ==
    \A r \in Resolutions :
        branch(r) = "networkOnly" =>
            /\ NetCalls(r) = 1
            /\ CacheCalls(r) = 0
            /\ calls[r] = <<networkFetch(input[r].request)>>

\* one network-only resolution has returned after a non-2xx response, another
\* after a rejection
C1_Witness ==
    \E r1, r2 \in Resolutions :
        /\ branch(r1) = "networkOnly" /\ pc[r1] = "returned"
        /\ NetResolved(r1) /\ ~Is2xx(netOut[r1].response)
        /\ branch(r2) = "networkOnly" /\ pc[r2] = "returned" /\ NetRejected(r2)

(***************************************************************************)
(* C2. Under the NetworkOnly policy, when the network resolver rejects,      *)
(* fetchCore resolves (does not reject) to a 500 response that carries the   *)
(* Sw-Net-Err header and whose body is the stringified rejection cause.      *)
(***************************************************************************)
C2_NetworkOnlyRejectionIs500 ==
    \A r \in Resolutions :
        branch(r) = "networkOnly" /\ NetRejected(r) =>
            ReturnedErrorFor(r, netOut[r].reason)

\* network-only resolutions have returned after a rejection with an Error and
\* after a rejection with a string
C2_Witness ==
    \E r1, r2 \in Resolutions :
        /\ branch(r1) = "networkOnly" /\ pc[r1] = "returned"
        /\ NetRejected(r1) /\ netOut[r1].reason.type = "Error"
        /\ branch(r2) = "networkOnly" /\ pc[r2] = "returned"
        /\ NetRejected(r2) /\ netOut[r2].reason.type = "string"

(***************************************************************************)
(* C3. Whenever the network resolver resolves with a non-2xx response,       *)
(* fetchCore returns that same response unchanged (same status, no           *)
(* X-Cache-Hit added, no Sw-Net-Err added, never a 500 or 404 in its place)  *)
(* under NetworkOnly, under NetworkFirst, and under CacheFirst when its      *)
(* network fallback is reached.                                              *)
(***************************************************************************)
C3_NonOkNetworkResponseVerbatim ==
    \A r \in Resolutions :
        InFetchCore(r) /\ NetResolved(r) /\ ~Is2xx(netOut[r].response) =>
            /\ branch(r) \in {"networkOnly", "networkFirst", "default"}
            /\ ReturnedNetworkVerbatim(r)
            /\ ~HasCacheHitHeader(ret[r].response)
            /\ ~HasNetErrHeader(ret[r].response)

\* a network-first resolution and a cache-first resolution have both returned
\* a 403 of the network
C3_Witness ==
    \E r1, r2 \in Resolutions :
        /\ branch(r1) = "networkFirst" /\ pc[r1] = "returned"
        /\ NetResolved(r1) /\ ret[r1].response.status = 403
        /\ branch(r2) = "default" /\ pc[r2] = "returned" /\ CacheCalls(r2) = 1
        /\ NetResolved(r2) /\ ret[r2].response.status = 403

(***************************************************************************)
(* C4. Under the NetworkFirst policy the network resolver is called before   *)
(* the cache resolver, and the cache resolver is called only if the network  *)
(* call rejected: when the network call resolves (any status) the cache      *)
(* resolver is never called for that request.                                *)
(***************************************************************************)
C4_NetworkFirstCacheOnlyAfterRejection ==
    \A r \in Resolutions :
        branch(r) = "networkFirst" =>
            /\ calls[r] # <<>> /\ calls[r][1].fn = "networkFetch"
            /\ NetCalls(r) = 1
            /\ CacheCalls(r) > 0 => NetRejected(r)
            /\ NetResolved(r) => CacheCalls(r) = 0

\* one network-first resolution returned what the network resolved with and made
\* no cache call, another went to the cache after a rejection
C4_Witness ==
    \E r1, r2 \in Resolutions :
        /\ branch(r1) = "networkFirst" /\ pc[r1] = "returned" /\ NetResolved(r1)
        /\ calls[r1] = <<networkFetch(input[r1].request)>>
        /\ branch(r2) = "networkFirst" /\ NetRejected(r2) /\ CacheCalls(r2) = 1
        /\ calls[r2][2].fn = "getFile"

(***************************************************************************)
(* C5. Under the NetworkFirst policy, when the network resolver rejects and  *)
(* the cache resolver returns an entry with a 2xx status, fetchCore returns  *)
(* that cache entry with its status unchanged and with the header            *)
(* X-Cache-Hit: SW HIT appended.                                             *)
(***************************************************************************)
C5_NetworkFirstFallsBackToOkCache ==
    \A r \in Resolutions :
        /\ branch(r) = "networkFirst" /\ NetRejected(r)
        /\ CacheEntry(r) /\ Is2xx(cacheOut[r].response)
        => ReturnedCacheHit(r)

\* a network-first resolution returned, after a rejection, a stored 2xx entry that
\* an earlier hit had already marked
C5_Witness ==
    \E r \in Resolutions :
        /\ branch(r) = "networkFirst" /\ pc[r] = "returned" /\ NetRejected(r)
        /\ CacheEntry(r) /\ Is2xx(cacheOut[r].response)
        /\ HasCacheHitHeader(cacheOut[r].response)
        /\ ret[r].ref = cacheOut[r].ref

(***************************************************************************)
(* C6. Under the NetworkFirst policy, when the network resolver rejects and  *)
(* the cache resolver returns null or an entry with a non-2xx status,        *)
(* fetchCore returns a 500 response with the Sw-Net-Err header built from    *)
(* the network rejection cause; the non-2xx cache entry is never returned    *)
(* and never receives the X-Cache-Hit header. Stated of the step in which    *)
(* the cache call settles: the entry leaves that step as the resolver        *)
(* handed it over.                                                           *)
(***************************************************************************)
C6_NetworkFirstBadCacheIs500 ==
    [][\A r \in Resolutions :
        /\ pc[r] = "cache" /\ branch(r) = "networkFirst" /\ NetRejected(r)
        /\ cacheOut'[r].state = "resolved"
        /\ ~(cacheOut'[r].ref # NullRef /\ Is2xx(cacheOut'[r].response))
        => /\ ReturnedErrorFor(r, netOut[r].reason)'
           /\ ret'[r].ref # cacheOut'[r].ref
           /\ cacheOut'[r].ref # NullRef =>
                /\ heap'[cacheOut'[r].ref] = cacheOut'[r].response
                /\ ~HasCacheHitHeader(cacheOut'[r].response)
                     => ~HasCacheHitHeader(heap'[cacheOut'[r].ref])]_vars

\* network-first resolutions have returned the 500 after a rejection, one on a
\* non-2xx entry, and one of them with the text of a rejection by a string
C6_Witness ==
    \E r \in Resolutions :
        /\ branch(r) = "networkFirst" /\ pc[r] = "returned" /\ NetRejected(r)
        /\ CacheEntry(r) /\ cacheOut[r].response.status = 401
        /\ ret[r].response.status = 500
        /\ ret[r].response.body = <<"offline">>

(***************************************************************************)
(* C7. Under the CacheOnly policy fetchCore never calls the network          *)
(* resolver, whether the cache resolver returns a 2xx entry, a non-2xx       *)
(* entry, or null.                                                           *)
(***************************************************************************)
C7_CacheOnlyNeverCallsNetwork ==
    \A r \in Resolutions :
        branch(r) = "cacheOnly" =>
            /\ NetCalls(r) = 0
            /\ netOut[r].state = "none"
            /\ calls[r] = <<getFile(input[r].request.url, input[r].targetClientId)>>

\* a cache-only resolution has returned after the cache resolver gave null
C7_Witness ==
    \E r \in Resolutions :
        /\ branch(r) = "cacheOnly" /\ pc[r] = "returned" /\ CacheNull(r)

(***************************************************************************)
(* C8. Under the CacheOnly policy, if the cache resolver returns an entry of *)
(* any status (2xx or not) fetchCore returns that entry with its status      *)
(* unchanged and the X-Cache-Hit header appended; if the cache resolver      *)
(* returns null it returns the 404 not-found response (which carries         *)
(* neither X-Cache-Hit nor Sw-Net-Err).                                      *)
(***************************************************************************)
C8_CacheOnlyResult ==
    \A r \in Resolutions :
        branch(r) = "cacheOnly" =>
            /\ CacheEntry(r) => ReturnedCacheHit(r)
            /\ CacheNull(r) =>
                /\ pc[r] = "returned"
                /\ ret[r].state = "resolved"
                /\ ret[r].ref = NotFoundRef
                /\ ret[r].response.status = 404
                /\ ret[r].response.body = <<"not found">>
                /\ ~HasCacheHitHeader(ret[r].response)
                /\ ~HasNetErrHeader(ret[r].response)

\* a cache-only resolution has returned a 401 entry as a cache hit
C8_Witness ==
    \E r \in Resolutions :
        /\ branch(r) = "cacheOnly" /\ pc[r] = "returned" /\ CacheEntry(r)
        /\ ret[r].response.status = 401
        /\ HasCacheHitHeader(ret[r].response)

(***************************************************************************)
(* C9. Under the CacheFirst policy the cache resolver is called first, and   *)
(* when it returns an entry with a 2xx status fetchCore returns that entry   *)
(* with the X-Cache-Hit header appended and never calls the network          *)
(* resolver.                                                                 *)
(***************************************************************************)
C9_CacheFirstServesOkCache ==
    \A r \in Resolutions :
        branch(r) = "default" /\ pc[r] # "idle" =>
            /\ calls[r] # <<>> /\ calls[r][1].fn = "getFile"
            /\ CacheEntry(r) /\ Is2xx(cacheOut[r].response) =>
                /\ ReturnedCacheHit(r)
                /\ NetCalls(r) = 0
                /\ netOut[r].state = "none"

\* a request without policy header has been answered with a 2xx entry of the cache
C9_Witness ==
    \E r \in Resolutions :
        /\ input[r].request.headers = <<>> /\ pc[r] = "returned"
        /\ CacheEntry(r) /\ Is2xx(cacheOut[r].response)
        /\ ret[r].ref = cacheOut[r].ref
        /\ HasCacheHitHeader(ret[r].response)

(***************************************************************************)
(* C10. Under the CacheFirst policy, when the cache resolver returns null or *)
(* a non-2xx entry, the result of fetchCore equals what NetworkOnly would    *)
(* return for the same network outcome: the network response verbatim (any   *)
(* status, without X-Cache-Hit) if the network resolves, or a 500 with       *)
(* Sw-Net-Err if the network rejects; the non-2xx cache entry is never       *)
(* returned.                                                                 *)
(***************************************************************************)
CacheFirstFallback(r) ==
    /\ branch(r) = "default"
    /\ cacheOut[r].state = "resolved"
    /\ ~(cacheOut[r].ref # NullRef /\ Is2xx(cacheOut[r].response))

\* two network calls settled the same way
SameNetworkOutcome(r1, r2) ==
    /\ netOut[r1].state = netOut[r2].state
    /\ netOut[r1].state # "none"
    /\ netOut[r1].response = netOut[r2].response
    /\ netOut[r1].reason = netOut[r2].reason

C10_CacheFirstFallbackIsNetworkOnly ==
    \A r \in Resolutions :
        CacheFirstFallback(r) =>
            /\ calls[r] = <<getFile(input[r].request.url, input[r].targetClientId),
                            networkFetch(input[r].request)>>
            /\ pc[r] = "returned" => ret[r].ref # cacheOut[r].ref
            /\ netOut[r].state = "none" => pc[r] = "network"
            /\ NetResolved(r) =>
                ReturnedNetworkVerbatim(r) /\ ~HasCacheHitHeader(ret[r].response)
            /\ NetRejected(r) => ReturnedErrorFor(r, netOut[r].reason)
            /\ \A n \in Resolutions :
                branch(n) = "networkOnly" /\ SameNetworkOutcome(r, n) =>
                    /\ pc[n] = pc[r]
                    /\ ret[n].state = ret[r].state
                    /\ ret[n].response = ret[r].response
                    /\ (ret[n].ref = netOut[n].ref) = (ret[r].ref = netOut[r].ref)

\* a cache-first resolution that found a non-2xx entry and a network-only
\* resolution have both returned after the same rejection of the network
C10_Witness ==
    \E r, n \in Resolutions :
        /\ CacheFirstFallback(r) /\ CacheEntry(r) /\ pc[r] = "returned"
        /\ branch(n) = "networkOnly" /\ pc[n] = "returned"
        /\ NetRejected(r) /\ SameNetworkOutcome(r, n)

(***************************************************************************)
(* C11  Policy selection: for every Sw-Policy header value that is missing, *)
(* empty, or not exactly one of the codes of NetworkFirst, NetworkOnly and   *)
(* CacheOnly (non-numeric text, "2abc", "1.5"), fetchCore behaves as         *)
(* CacheFirst: the first resolver it calls is the cache resolver, for the    *)
(* request's url and the target client.                                      *)
(***************************************************************************)
ExactPolicyCodes ==
    {serviceWorkerPolicies.networkFirst, serviceWorkerPolicies.networkOnly,
     serviceWorkerPolicies.cacheOnly}

NamesPolicy(request) ==
    LET value == HeadersGet(request.headers, serviceWorkerPolicyHeader)
    IN value # <<>> /\ value[1] \in ExactPolicyCodes

C11_OnlyExactCodesSelectPolicy ==
    \A r \in Resolutions :
        InFetchCore(r) /\ ~NamesPolicy(input[r].request)
            => /\ calls[r] # <<>>
               /\ calls[r][1] = getFile(input[r].request.url, input[r].targetClientId)

(***************************************************************************)
(* C12  fetchCore never rejects: whatever the policy and however the        *)
(* network resolver and the cache resolver settle (rejections included), the *)
(* promise of fetchCore resolves with a Response.                            *)
(***************************************************************************)
C12_FetchCoreNeverRejects ==
    \A r \in Resolutions :
        InFetchCore(r)
            => /\ pc[r] # "threw"
               /\ pc[r] = "returned" => ret[r].state = "resolved" /\ ret[r].ref # NullRef

(***************************************************************************)
(* The router: what the claims about the handler speak of.                  *)
(***************************************************************************)
\* the url of the request resolution r answers, once the event has arrived
RequestUrl(r) == event[r].request.url
Handling(r) == pc[r] # "idle"

\* no resolver has been called by resolution r
NoResolverCalled(r) ==
    /\ calls[r] = <<>>
    /\ netOut[r].state = "none"
    /\ cacheOut[r].state = "none"

HeaderIs(response, name, value) == HeadersGet(response.headers, name) = <<value>>

\* the response carries every one of the configured extra headers
HasDocumentHeaders(response) ==
    \A i \in 1..Len(inMemoryDocumentHeaders) :
        HeaderIs(response, inMemoryDocumentHeaders[i][1], inMemoryDocumentHeaders[i][2])

\* the content-length header, read as a number, is the number of bytes of the body
ContentLengthIsByteLength(response) ==
    LET values == HeadersGet(response.headers, "content-length")
    IN /\ Len(values) = 1
       /\ ~parseInt(values[1]).nan
       /\ parseInt(values[1]).value = byteLength(response.body)

\* the handler resolved to a 200 built in memory from the given text, marked as a
\* cache hit
ReturnedInMemory(r, body, contentType) ==
    /\ pc[r] = "returned"
    /\ ret[r].state = "resolved"
    /\ ret[r].ref \notin {netOut[r].ref, NotFoundRef, StoredRef}
    /\ ret[r].response.status = 200
    /\ ret[r].response.body = body
    /\ HeaderIs(ret[r].response, "content-type", contentType)
    /\ ContentLengthIsByteLength(ret[r].response)
    /\ HasDocumentHeaders(ret[r].response)
    /\ HeaderIs(ret[r].response, "X-Cache-Hit", "SW HIT")
    /\ ~HasNetErrHeader(ret[r].response)

(***************************************************************************)
(* C13  The handler never rejects: whatever the request url (root document, *)
(* template endpoint with any query, entry script, test probe, other path of *)
(* the origin, another origin) and however the network and the cache settle, *)
(* the promise of the handler resolves with a Response.                      *)
(***************************************************************************)
C13_HandlerNeverRejects ==
    \A r \in Resolutions :
        Handling(r) =>
            /\ ret[r].state # "rejected"
            /\ pc[r] \in {"network", "cache", "returned"}
            /\ pc[r] = "returned" => ret[r].ref # NullRef

(***************************************************************************)
(* C14  For a request whose url is exactly origin + "/", the handler calls  *)
(* the network resolver (once, with the request), never the cache resolver,  *)
(* and when the network resolves returns that response as it is, whatever    *)
(* its status.                                                               *)
(***************************************************************************)
C14_RootDocIsNetworkVerbatim ==
    \A r \in Resolutions :
        Handling(r) /\ RequestUrl(r) = origin \o <<"/">> =>
            /\ calls[r] = <<networkFetch(event[r].request)>>
            /\ CacheCalls(r) = 0
            /\ cacheOut[r].state = "none"
            /\ NetResolved(r) =>
                /\ ReturnedNetworkVerbatim(r)
                /\ ret[r].response.body = <<"from network">>
                /\ ~ret[r].response.bodyUsed

\* a root-document request was answered with the 403 of the network while the
\* client holds a file, and another one after the network rejected
C14_Witness ==
    \E r1, r2 \in Resolutions :
        /\ RequestUrl(r1) = rootDoc /\ pc[r1] = "returned" /\ NetResolved(r1)
        /\ ret[r1].response.status = 403
        /\ RequestUrl(r2) = rootDoc /\ pc[r2] = "returned" /\ NetRejected(r2)
        /\ cache.present

(***************************************************************************)
(* C15  For a root-document request whose network call rejects, the handler *)
(* returns a 200 built from the in-memory index document, with content-type  *)
(* text/html, content-length the precomputed length of that document, the    *)
(* configured extra headers and the X-Cache-Hit header; the cache is not     *)
(* asked, whether or not the client holds a copy.                            *)
(***************************************************************************)
C15_RootDocFallsBackToMemory ==
    \A r \in Resolutions :
        Handling(r) /\ RequestUrl(r) = origin \o <<"/">> /\ NetRejected(r) =>
            /\ ReturnedInMemory(r, IndexHtml, "text/html")
            /\ HeaderIs(ret[r].response, "content-length", toString(INDEX_HTML_LENGTH))
            /\ CacheCalls(r) = 0

\* with extra headers configured and a 2xx file held by the client, a
\* root-document request was answered from memory after a rejection
C15_Witness ==
    \E r \in Resolutions :
        /\ RequestUrl(r) = rootDoc /\ pc[r] = "returned" /\ NetRejected(r)
        /\ inMemoryDocumentHeaders # <<>>
        /\ cache.present /\ cache.status = 200
        /\ ret[r].response.body = IndexHtml

(***************************************************************************)
(* C16  For a template-endpoint request without query string, or whose      *)
(* query lacks csp or lacks entry, the handler returns a 500 and calls       *)
(* neither the network resolver nor the cache resolver.                      *)
(***************************************************************************)
TemplateUsageErrorUrls ==
    {origin \o <<"/", "runProgram">>,
     origin \o <<"/", "runProgram", "?">>,
     origin \o <<"/", "runProgram", "?", "csp", "=", "true">>,
     origin \o <<"/", "runProgram", "?", "entry", "=", "index.js">>}

TemplateUsageError(r) == Handling(r) /\ RequestUrl(r) \in TemplateUsageErrorUrls

C16_TemplateUsageErrorIs500 ==
    \A r \in Resolutions :
        TemplateUsageError(r) =>
            /\ pc[r] = "returned"
            /\ ret[r].state = "resolved"
            /\ ret[r].response.status = 500
            /\ NoResolverCalled(r)

\* requests without query, with csp only and with entry only have been answered
C16_Witness ==
    \E r1, r2 \in Resolutions :
        /\ TemplateUsageError(r1) /\ Len(split(RequestUrl(r1), "?")) < 2
        /\ ret[r1].response.status = 500
        /\ TemplateUsageError(r2) /\ Len(split(RequestUrl(r2), "?")) = 2
        /\ ParamsHas(URLSearchParams(split(RequestUrl(r2), "?")[2]), <<"csp">>)
        /\ ret[r2].response.status = 500

(***************************************************************************)
(* C17  As claimed: a response of the handler carries the Sw-Net-Err header *)
(* only when a network or cache operation rejected, and the 500 of a         *)
(* template usage error (no query, no csp, no entry) carries no Sw-Net-Err   *)
(* header.                                                                   *)
(***************************************************************************)
C17_NetErrOnlyAfterRejection ==
    \A r \in Resolutions :
        pc[r] = "returned" =>
            /\ HasNetErrHeader(ret[r].response) =>
                    NetRejected(r) \/ cacheOut[r].state = "rejected"
            /\ TemplateUsageError(r) =>
                    ret[r].response.status = 500 /\ ~HasNetErrHeader(ret[r].response)

(***************************************************************************)
(* C17, amended  A response of the handler carries the Sw-Net-Err header    *)
(* only if it is a 500 built by errorResponse, either after the network      *)
(* resolver rejected or for a template usage error; the 500 of a template    *)
(* usage error always carries Sw-Net-Err: 1.                                 *)
(***************************************************************************)
C17_NetErrOnErrorResponses ==
    \A r \in Resolutions :
        pc[r] = "returned" =>
            /\ HasNetErrHeader(ret[r].response) =>
                /\ ret[r].response.status = 500
                /\ ret[r].ref \notin {netOut[r].ref, cacheOut[r].ref, NotFoundRef}
                /\ NetRejected(r) \/ TemplateUsageError(r)
            /\ TemplateUsageError(r) =>
                /\ ret[r].response.status = 500
                /\ HeaderIs(ret[r].response, "Sw-Net-Err", "1")

\* a template request without query was answered with a tagged 500 that tells
\* what is missing, while no resolver was called
C17_Witness ==
    \E r \in Resolutions :
        /\ pc[r] = "returned"
        /\ RequestUrl(r) = templateEndpoint
        /\ NoResolverCalled(r)
        /\ HeaderIs(ret[r].response, "Sw-Net-Err", "1")
        /\ ret[r].response.body = <<"template endpoint must have query">>

(***************************************************************************)
(* C18  Template round trip: for every policy text C and entry url E, the   *)
(* request runProgram?csp=encodeURIComponent(C)&entry=encodeURIComponent(E)  *)
(* is answered with a 200 text/html whose body holds exactly C as content of *)
(* the Content-Security-Policy meta tag and exactly E as entry attribute of  *)
(* the root-script tag, with content-length the bytes of the body, and no    *)
(* resolver is called.                                                       *)
(***************************************************************************)
TemplateRequestFor(r, csp, entry) ==
    /\ Handling(r)
    /\ RequestUrl(r) = origin \o <<"/", "runProgram", "?", "csp", "=">>
                          \o encodeURIComponent(csp) \o <<"&", "entry", "=">>
                          \o encodeURIComponent(entry)

C18_TemplateRoundTrip ==
    \A r \in Resolutions : \A csp \in SecurityPolicies, entry \in ImportSources :
        TemplateRequestFor(r, csp, entry) =>
            /\ pc[r] = "returned"
            /\ ret[r].state = "resolved"
            /\ ret[r].response.status = 200
            /\ HeaderIs(ret[r].response, "content-type", "text/html")
            /\ ret[r].response.body =
                   <<TemplateHead>> \o csp \o <<TemplateMiddle>> \o entry
                       \o <<TemplateTail>>
            /\ ContentLengthIsByteLength(ret[r].response)
            /\ NoResolverCalled(r)

(***************************************************************************)
(* C19  For an entry-script request the handler calls the network resolver  *)
(* for the entry script and never the cache resolver; it returns the         *)
(* network's response as it is, without X-Cache-Hit, and if the network      *)
(* rejects a 200 built from the in-memory script with content-type           *)
(* text/javascript, its precomputed content-length, the extra headers and    *)
(* the X-Cache-Hit header.                                                   *)
(***************************************************************************)
EntryScriptRequest(r) ==
    Handling(r) /\ RequestUrl(r) = origin \o <<"/", "secure.compiled.js">>

C19_EntryScriptNetworkThenMemory ==
    \A r \in Resolutions :
        EntryScriptRequest(r) =>
            /\ NetCalls(r) = 1
            /\ calls[r][1].url = origin \o <<"/", "secure.compiled.js">>
            /\ CacheCalls(r) = 0
            /\ cacheOut[r].state = "none"
            /\ NetResolved(r) =>
                /\ ReturnedNetworkVerbatim(r)
                /\ ~HasCacheHitHeader(ret[r].response)
            /\ NetRejected(r) =>
                /\ ReturnedInMemory(r, SecureMjs, "text/javascript")
                /\ HeaderIs(ret[r].response, "content-length",
                            toString(SECURE_MJS_LENGTH))

\* one entry-script request was answered by the network with a response that is
\* not ok, another from memory with the extra headers, the client holding a file
C19_Witness ==
    \E r1, r2 \in Resolutions :
        /\ EntryScriptRequest(r1) /\ pc[r1] = "returned" /\ NetResolved(r1)
        /\ ~ok(ret[r1].response)
        /\ EntryScriptRequest(r2) /\ pc[r2] = "returned" /\ NetRejected(r2)
        /\ ret[r2].response.body = SecureMjs
        /\ inMemoryDocumentHeaders # <<>>
        /\ cache.present

(***************************************************************************)
(* C20  For every request whose url begins with the origin and is not the   *)
(* root document, the template endpoint, the entry script or the test        *)
(* probe, the handler returns the 404 not-found response and calls no        *)
(* resolver.                                                                 *)
(***************************************************************************)
OtherSameOriginRequest(r) ==
    /\ Handling(r)
    /\ startsWith(RequestUrl(r), origin)
    /\ RequestUrl(r) # origin \o <<"/">>
    /\ \A known \in {<<"/", "runProgram">>, <<"/", "secure.compiled.js">>,
                      <<"/", "test.mjs">>} :
            ~startsWith(RequestUrl(r), origin \o known)

C20_OtherSameOriginIs404 ==
    \A r \in Resolutions :
        OtherSameOriginRequest(r) =>
            /\ pc[r] = "returned"
            /\ ret[r].state = "resolved"
            /\ ret[r].ref = NotFoundRef
            /\ ret[r].response.status = 404
            /\ ret[r].response.body = <<"not found">>
            /\ NoResolverCalled(r)

\* a path of the origin and a url of another host that begins with the origin
\* have both been answered with the 404
C20_Witness ==
    \E r1, r2 \in Resolutions :
        /\ OtherSameOriginRequest(r1) /\ RequestUrl(r1)[2] = "/"
        /\ ret[r1].response.status = 404
        /\ OtherSameOriginRequest(r2) /\ RequestUrl(r2)[2] # "/"
        /\ ret[r2].response.status = 404

(***************************************************************************)
(* C21  For every request whose url is not prefixed by the origin, the      *)
(* handler answers as fetchCore does for that request: fetchCore gets the    *)
(* request of the event, the client id of the event if it is not empty and   *)
(* the resulting client id otherwise, and the configured log flag; the       *)
(* network resolver is called with the request, the cache resolver with the  *)
(* url and that client id; and the handler resolves to what fetchCore         *)
(* resolved to (a resolver's object, an error response or the not-found      *)
(* response), never to a document built in memory.                           *)
(***************************************************************************)
OtherOriginRequest(r) == Handling(r) /\ ~startsWith(RequestUrl(r), origin)

\* the client whose files the cache resolver is asked for
KeyedClientId(r) ==
    IF event[r].clientId # "" THEN event[r].clientId ELSE event[r].resultingClientId

C21_OtherOriginsGoToFetchCore ==
    \A r \in Resolutions :
        OtherOriginRequest(r) =>
            /\ InFetchCore(r)
            /\ input[r].request = event[r].request
            /\ input[r].targetClientId = KeyedClientId(r)
            /\ input[r].shouldLog = config.log
            /\ \A i \in 1..Len(calls[r]) :
                    \/ calls[r][i] = [fn |-> "networkFetch", url |-> RequestUrl(r),
                                      clientId |-> ""]
                    \/ calls[r][i] = [fn |-> "getFile", url |-> RequestUrl(r),
                                      clientId |-> KeyedClientId(r)]
            /\ pc[r] = "returned" =>
                    /\ ret[r].ref \in {NetRef(r), CacheRef(r), StoredRef, ErrorRef(r),
                                       NotFoundRef}
                    /\ ret[r].ref \in {CacheRef(r), StoredRef} => ret[r].ref = cacheOut[r].ref
                    /\ ret[r].ref = NetRef(r) => ReturnedNetworkVerbatim(r)
                    /\ heap[DocumentRef(r)] = NoResponse

\* a request of a client and a navigation have both been answered from the
\* cache, each asked for its own client
C21_Witness ==
    \E r1, r2 \in Resolutions :
        /\ OtherOriginRequest(r1) /\ event[r1].clientId = "client-1"
        /\ pc[r1] = "returned" /\ CacheCalls(r1) = 1 /\ ret[r1].ref = cacheOut[r1].ref
        /\ OtherOriginRequest(r2) /\ event[r2].clientId = ""
        /\ event[r2].resultingClientId = "client-2"
        /\ pc[r2] = "returned" /\ CacheCalls(r2) = 1
        /\ calls[r2][1].clientId = "client-2"

(***************************************************************************)
(* C22  The configured extra headers are on every document the handler       *)
(* builds in memory (root document after a network rejection, template       *)
(* response, entry script after a network rejection) and on no other          *)
(* response it returns: not on a response of the network resolver or of the  *)
(* cache resolver, not on the 404 and not on a 500.                          *)
(***************************************************************************)
\* the handler answered resolution r with a document it built in memory
Synthesized(r) ==
    \/ route(r) \in {"rootDoc", "entryScript"} /\ NetRejected(r)
    \/ route(r) = "templateEndpoint" /\ ~TemplateUsageError(r)

\* the response has a header of one of the configured names
CarriesDocumentHeader(response) ==
    \E i \in 1..Len(inMemoryDocumentHeaders) :
        HeadersHas(response.headers, inMemoryDocumentHeaders[i][1])

C22_ExtraHeadersOnlyOnSynthesized ==
    \A r \in Resolutions :
        pc[r] = "returned" =>
            IF Synthesized(r)
            THEN /\ ret[r].ref = DocumentRef(r)
                 /\ HasDocumentHeaders(ret[r].response)
                 /\ HasDocumentHeaders(heap[ret[r].ref])
            ELSE /\ ret[r].ref # DocumentRef(r)
                 /\ ~CarriesDocumentHeader(ret[r].response)
                 /\ ~CarriesDocumentHeader(heap[ret[r].ref])

\* with extra headers configured, a template document has been returned and a
\* response of the network has been passed on for the root document
C22_Witness ==
    \E r1, r2 \in Resolutions :
        /\ inMemoryDocumentHeaders # <<>>
        /\ pc[r1] = "returned" /\ route(r1) = "templateEndpoint" /\ Synthesized(r1)
        /\ HasDocumentHeaders(ret[r1].response)
        /\ pc[r2] = "returned" /\ route(r2) = "rootDoc" /\ NetResolved(r2)
        /\ ret[r2].ref = NetRef(r2)

(***************************************************************************)
(* C23  CacheOnly is idempotent: with the cache contents unchanged, every   *)
(* call of fetchCore for the same CacheOnly request that finds the file      *)
(* resolves to a response with the status of the file, its body, and         *)
(* X-Cache-Hit with the one value SW HIT - also when the cache resolver      *)
(* hands back the same stored Response on each call.                         *)
(***************************************************************************)
C23_CacheOnlyIdempotent ==
    \A r \in Resolutions :
        (branch(r) = "cacheOnly" /\ pc[r] = "returned" /\ CacheEntry(r)) =>
            /\ ret[r].response.status = cache.status
            /\ ret[r].response.body = CachedResponse(cache).body
            /\ ~ret[r].response.bodyUsed
            /\ HeadersGet(ret[r].response.headers, "X-Cache-Hit") = <<"SW HIT">>

(***************************************************************************)
(* C24  On every path of the handler and of fetchCore the only change made  *)
(* to a Response a resolver handed over is that cacheHit appends one          *)
(* X-Cache-Hit: SW HIT after the headers it has, status and body untouched,  *)
(* and the response changed so is the one returned as the cache hit. A        *)
(* response of the network resolver is never changed, and the request of an  *)
(* event is never changed.                                                   *)
(***************************************************************************)
\* the response with one more X-Cache-Hit: SW HIT after its headers
WithHitAppended(response) ==
    [response EXCEPT !.headers = Append(@, <<"X-Cache-Hit", "SW HIT">>)]

\* resolution r returns in this step the object the cache resolver gave it
ReturnsCached(r, ref) ==
    /\ pc[r] # "returned" /\ pc'[r] = "returned"
    /\ cacheOut'[r].state = "resolved" /\ cacheOut'[r].ref = ref
    /\ ret'[r].ref = ref

C24_OnlyCacheHitMutatesResponses ==
    [][/\ \A r \in Resolutions :
            \* the object the network resolver resolved with stays as handed over
            /\ (pc'[r] # "idle" /\ netOut'[r].state = "resolved") =>
                    heap'[NetRef(r)] = netOut'[r].response
            \* the object the cache resolver built for r: as handed over, or
            \* marked once and returned
            /\ (pc'[r] # "idle" /\ cacheOut'[r].state = "resolved"
                    /\ cacheOut'[r].ref = CacheRef(r)) =>
                    \/ heap'[CacheRef(r)] = cacheOut'[r].response
                    \/ /\ heap'[CacheRef(r)] = WithHitAppended(cacheOut'[r].response)
                       /\ pc'[r] = "returned" /\ ret'[r].ref = CacheRef(r)
            \* a cache hit is the resolver's response with the header appended
            /\ \A ref \in {CacheRef(r), StoredRef} :
                    ReturnsCached(r, ref) =>
                        /\ ret'[r].response = WithHitAppended(cacheOut'[r].response)
                        /\ heap'[ref] = ret'[r].response
            \* the request of the event and the one fetchCore got stay as they are
            /\ (pc[r] # "idle" /\ pc'[r] # "idle") =>
                    /\ event'[r] = event[r]
                    /\ input[r] # NoInput => input'[r] = input[r]
       \* the stored object: marked by a resolution that returns it, or its body
       \* read by the page it was delivered to
       /\ heap'[StoredRef] # heap[StoredRef] =>
            \/ /\ heap'[StoredRef] = WithHitAppended(heap[StoredRef])
               /\ \E r \in Resolutions : ReturnsCached(r, StoredRef)
            \/ /\ heap'[StoredRef] = [heap[StoredRef] EXCEPT !.bodyUsed = TRUE]
               /\ \E r \in Resolutions :
                    pc[r] = "returned" /\ ret[r].ref = StoredRef /\ pc'[r] = "idle"
      ]_vars

\* a cache hit with a status that is not ok has been returned from the stored
\* object, marked, and a response of the network has been returned by another
\* resolution
C24_Witness ==
    \E r1, r2 \in Resolutions :
        /\ pc[r1] = "returned" /\ ret[r1].ref = StoredRef /\ cacheOut[r1].ref = StoredRef
        /\ ret[r1].response.status = 401
        /\ HasCacheHitHeader(heap[StoredRef])
        /\ pc[r2] = "returned" /\ NetResolved(r2) /\ ret[r2].ref = NetRef(r2)

(***************************************************************************)
(* C25  The not-found response can be used again and again: every 404 that  *)
(* fetchCore returns for a CacheOnly miss or that the handler returns for an *)
(* unknown path of the origin - on the first call, on a later one, or next   *)
(* to another call - is a 404 whose body "not found" has not been read and   *)
(* can still be delivered.                                                   *)
(***************************************************************************)
\* resolution r was answered with the not-found response
AnsweredNotFound(r) ==
    /\ pc[r] = "returned"
    /\ \/ route(r) = "notFound"
       \/ branch(r) = "cacheOnly" /\ CacheNull(r)

C25_NotFoundIsReusable ==
    \A r \in Resolutions :
        AnsweredNotFound(r) =>
            /\ ret[r].response.status = 404
            /\ ret[r].response.body = <<"not found">>
            /\ ~ret[r].response.bodyUsed
            /\ ~heap[ret[r].ref].bodyUsed

(***************************************************************************)
(* C26  With logging enabled every call of fetchCore hands exactly one line *)
(* to the log function before it returns, on every branch, after a network   *)
(* rejection too: tagged "network-first" under NetworkOnly and NetworkFirst, *)
(* "cache-only" under CacheOnly and "cache-first" in the default branch. No  *)
(* call ever logs more than one line, and with logging disabled none logs    *)
(* any.                                                                      *)
(***************************************************************************)
\* the tag of the lines a case of fetchCore logs
TagOf(case) ==
    CASE case \in {"networkOnly", "networkFirst"} -> "network-first"
      [] case = "cacheOnly" -> "cache-only"
      [] OTHER -> "cache-first"

C26_OneLogLinePerCall ==
    \A r \in Resolutions :
        InFetchCore(r) =>
            /\ Len(logged[r]) <= 1
            /\ \A i \in 1..Len(logged[r]) :
                    /\ logged[r][i].tag = TagOf(branch(r))
                    /\ logged[r][i].url = input[r].request.url
            /\ ~input[r].shouldLog => logged[r] = <<>>
            /\ (input[r].shouldLog /\ pc[r] = "returned") => Len(logged[r]) = 1

\* with logging enabled, a network-first call has returned after a network
\* rejection and a cache-only call after a miss, each with its one line
C26_Witness ==
    \E r1, r2 \in Resolutions :
        /\ config.log
        /\ branch(r1) = "networkFirst" /\ pc[r1] = "returned" /\ NetRejected(r1)
        /\ Len(logged[r1]) = 1 /\ logged[r1][1].tag = "network-first"
        /\ branch(r2) = "cacheOnly" /\ pc[r2] = "returned" /\ CacheNull(r2)
        /\ Len(logged[r2]) = 1 /\ logged[r2][1].tag = "cache-only"

(***************************************************************************)
(* C27  Logging never affects resolution: with a log function that throws,  *)
(* fetchCore rejects only where it rejects with logging disabled (the cache  *)
(* resolver rejected), and it calls the resolvers and returns the response   *)
(* it would with logging disabled - NetworkOnly calls the network, and a     *)
(* NetworkFirst call whose network promise resolved returns that response    *)
(* without asking the cache.                                                 *)
(***************************************************************************)
C27_LoggingNeverAffectsResolution ==
    \A r \in Resolutions :
        (InFetchCore(r) /\ input[r].shouldLog /\ logFn = "throws") =>
            /\ pc[r] = "threw" => cacheOut[r].state = "rejected"
            /\ branch(r) = "networkOnly" => NetCalls(r) = 1
            /\ (branch(r) = "networkFirst" /\ NetResolved(r)) =>
                    /\ CacheCalls(r) = 0
                    /\ ReturnedNetworkVerbatim(r)

(***************************************************************************)
(* C28  No coalescing: each resolution makes its own resolver calls. The    *)
(* calls a resolution has made are those its own route, policy and resolver  *)
(* outcomes ask for, whatever other resolutions are under way; so for        *)
(* requests for the same url that are resolved side by side the number of     *)
(* network and of cache invocations is the sum of what each performs alone,  *)
(* at every point of every interleaving.                                     *)
(***************************************************************************)
\* the network calls resolution r makes when it is the only one, up to where it is
OwnNetCalls(r) ==
    LET to == route(r)
        case == branch(r)
    IN IF to \in {"rootDoc", "entryScript", "testScript"} THEN 1
       ELSE IF to # "fetchCore" THEN 0
       ELSE IF case \in {"networkOnly", "networkFirst"} THEN 1
       ELSE IF case = "cacheOnly" THEN 0
       ELSE IF cacheOut[r].state = "resolved"
               /\ ~(CacheEntry(r) /\ ok(cacheOut[r].response))
       THEN 1 ELSE 0

\* the cache calls resolution r makes when it is the only one, up to where it is
OwnCacheCalls(r) ==
    LET case == branch(r)
    IN IF case = "none" \/ case = "networkOnly" THEN 0
       ELSE IF case = "networkFirst" THEN (IF NetRejected(r) THEN 1 ELSE 0)
       ELSE 1

\* two resolutions under way for the same url
SideBySide(r1, r2) ==
    r1 # r2 /\ Handling(r1) /\ Handling(r2) /\ RequestUrl(r1) = RequestUrl(r2)

C28_NoCoalescing ==
    /\ \A r \in Resolutions :
            /\ NetCalls(r) = OwnNetCalls(r)
            /\ CacheCalls(r) = OwnCacheCalls(r)
            /\ Len(calls[r]) = NetCalls(r) + CacheCalls(r)
    /\ \A r1, r2 \in Resolutions :
            (r1 < r2 /\ SideBySide(r1, r2)) =>
                /\ NetCalls(r1) + NetCalls(r2) = OwnNetCalls(r1) + OwnNetCalls(r2)
                /\ CacheCalls(r1) + CacheCalls(r2) = OwnCacheCalls(r1) + OwnCacheCalls(r2)

\* two cache-first requests for the same url both missed the cache and wait for
\* the network at the same time: two cache calls and two network calls were made
C28_Witness ==
    \E r1, r2 \in Resolutions :
        /\ SideBySide(r1, r2) /\ InFetchCore(r1)
        /\ event[r1] = event[r2]
        /\ branch(r1) = "default"
        /\ pc[r1] = "network" /\ pc[r2] = "network"
        /\ NetCalls(r1) + NetCalls(r2) = 2
        /\ CacheCalls(r1) + CacheCalls(r2) = 2

(***************************************************************************)
(* C29  Resolutions have no memory and share no mutable state: a response   *)
(* object handed to one request is not altered while another resolution      *)
(* runs or is delivered, and two resolutions with the same request, the same *)
(* network outcome and the same cache outcome return responses with the same *)
(* status, the same headers and the same body availability.                  *)
(***************************************************************************)
\* the two resolutions got the same request and the same resolver outcomes
SameInputs(r1, r2) ==
    /\ event[r1] = event[r2]
    /\ netOut[r1].state = netOut[r2].state
    /\ netOut[r1].response = netOut[r2].response
    /\ netOut[r1].reason = netOut[r2].reason
    /\ cacheOut[r1].state = cacheOut[r2].state
    /\ (cacheOut[r1].ref = NullRef) = (cacheOut[r2].ref = NullRef)

C29_NoSharedMutableState ==
    [][/\ \A r \in Resolutions :
            (pc[r] = "returned" /\ pc'[r] = "returned") =>
                heap'[ret[r].ref] = heap[ret[r].ref]
       /\ \A r1, r2 \in Resolutions :
            (pc'[r1] = "returned" /\ pc'[r2] = "returned" /\ SameInputs(r1, r2)') =>
                /\ ret'[r1].response.status = ret'[r2].response.status
                /\ ret'[r1].response.headers = ret'[r2].response.headers
                /\ heap'[ret'[r1].ref].bodyUsed = heap'[ret'[r2].ref].bodyUsed
      ]_vars

(***************************************************************************)
(* C30  No retries: a resolution, under every policy and on every path of   *)
(* the handler, calls the network resolver at most once and the cache         *)
(* resolver at most once; once the fallback of its policy has failed too      *)
(* (network-first: the cache after the network; cache-first: the network      *)
(* after the cache) the resolution is over and makes no further call.         *)
(***************************************************************************)
\* the fallback step of the policy of resolution r has settled
FallbackSettled(r) ==
    \/ branch(r) = "networkFirst" /\ NetRejected(r) /\ cacheOut[r].state # "none"
    \/ branch(r) = "default" /\ cacheOut[r].state # "none" /\ netOut[r].state # "none"

C30_NoRetries ==
    \A r \in Resolutions :
        /\ NetCalls(r) <= 1
        /\ CacheCalls(r) <= 1
        /\ Len(calls[r]) = NetCalls(r) + CacheCalls(r)
        /\ FallbackSettled(r) => pc[r] \in {"returned", "threw"}

\* a network-first resolution ended with a 500 after the network rejected and the
\* cache had no file, a cache-first one after a miss and a network rejection,
\* each with one call of either resolver
C30_Witness ==
    \E r1, r2 \in Resolutions :
        /\ branch(r1) = "networkFirst" /\ FallbackSettled(r1) /\ CacheNull(r1)
        /\ pc[r1] = "returned" /\ ret[r1].response.status = 500
        /\ NetCalls(r1) = 1 /\ CacheCalls(r1) = 1
        /\ branch(r2) = "default" /\ FallbackSettled(r2) /\ NetRejected(r2)
        /\ pc[r2] = "returned" /\ ret[r2].response.status = 500
        /\ NetCalls(r2) = 1 /\ CacheCalls(r2) = 1

(***************************************************************************)
(* C32  For the test probe the handler passes the network through: it calls *)
(* the network resolver once with the request and never the cache resolver,  *)
(* and its promise settles as the network promise does - resolved with the   *)
(* very response of the network, whatever its status, or rejected with the   *)
(* reason the network rejected with.                                         *)
(***************************************************************************)
TestProbeRequest(r) == Handling(r) /\ startsWith(RequestUrl(r), testScript)

C32_TestProbeIsPassthrough ==
    \A r \in Resolutions :
        TestProbeRequest(r) =>
            /\ calls[r] = <<[fn |-> "networkFetch", url |-> RequestUrl(r), clientId |-> ""]>>
            /\ cacheOut[r].state = "none"
            /\ heap[DocumentRef(r)] = NoResponse /\ heap[ErrorRef(r)] = NoResponse
            /\ pc[r] = "network" <=> netOut[r].state = "none"
            /\ NetResolved(r) => ReturnedNetworkVerbatim(r)
            /\ NetRejected(r) =>
                    /\ pc[r] = "threw"
                    /\ ret[r].state = "rejected"
                    /\ ret[r].reason = netOut[r].reason

\* one test-probe request was answered with the 403 of the network, another was
\* rejected as the network was
C32_Witness ==
    \E r1, r2 \in Resolutions :
        /\ TestProbeRequest(r1) /\ NetResolved(r1) /\ pc[r1] = "returned"
        /\ ret[r1].response.status = 403
        /\ TestProbeRequest(r2) /\ NetRejected(r2) /\ pc[r2] = "threw"
        /\ ret[r2].reason = netOut[r2].reason

(***************************************************************************)
(* C35  X-Cache-Hit marks exactly the results that did not come from the    *)
(* network: with resolvers whose responses do not carry the header, a        *)
(* response the handler or fetchCore returns has X-Cache-Hit if and only if  *)
(* it is the response of the cache resolver or was built from one of the two *)
(* inlined assets (index document, entry script); and no returned response   *)
(* has both X-Cache-Hit and Sw-Net-Err.                                      *)
(***************************************************************************)
\* the response returned to r is the one the cache resolver resolved with
FromCacheResolver(r) ==
    cacheOut[r].state = "resolved" /\ cacheOut[r].ref # NullRef /\ ret[r].ref = cacheOut[r].ref

\* the response returned to r was built from IndexHtml or SecureMjs
FromInlinedAsset(r) ==
    /\ ret[r].ref = DocumentRef(r)
    /\ route(r) \in {"rootDoc", "entryScript"}
    /\ ret[r].response.body \in {IndexHtml, SecureMjs}

C35_CacheHitMarksNonNetwork ==
    \A r \in Resolutions :
        pc[r] = "returned" =>
            /\ HasCacheHitHeader(ret[r].response)
                    <=> (FromCacheResolver(r) \/ FromInlinedAsset(r))
            /\ HasCacheHitHeader(heap[ret[r].ref]) = HasCacheHitHeader(ret[r].response)
            /\ ~(HasCacheHitHeader(ret[r].response) /\ HasNetErrHeader(ret[r].response))

\* a cache hit and a response of the network have been returned side by side,
\* the first marked, the second not
C35_Witness ==
    \E r1, r2 \in Resolutions :
        /\ pc[r1] = "returned" /\ FromCacheResolver(r1) /\ HasCacheHitHeader(ret[r1].response)
        /\ pc[r2] = "returned" /\ ret[r2].ref = NetRef(r2) /\ InFetchCore(r2)
        /\ ~HasCacheHitHeader(ret[r2].response)

(***************************************************************************)
(* C33  A request for the entry script with a query string is served as the *)
(* entry script: the handler calls the network resolver once, with the url   *)
(* of the entry script without the query and not with the incoming request,  *)
(* never calls the cache resolver, and returns the response of the network   *)
(* (the in-memory script if the network rejects).                            *)
(***************************************************************************)
EntryScriptWithQuery(r) ==
    /\ Handling(r)
    /\ startsWith(RequestUrl(r), origin \o <<"/", "secure.compiled.js", "?">>)
    /\ Len(RequestUrl(r)) > Len(origin) + 3

C33_EntryScriptQueryIsDropped ==
    \A r \in Resolutions :
        EntryScriptWithQuery(r) =>
            /\ calls[r] = <<[fn |-> "networkFetch",
                             url |-> origin \o <<"/", "secure.compiled.js">>,
                             clientId |-> ""]>>
            /\ calls[r][1].url # RequestUrl(r)
            /\ cacheOut[r].state = "none"
            /\ NetResolved(r) => ReturnedNetworkVerbatim(r)
            /\ NetRejected(r) => ReturnedInMemory(r, SecureMjs, "text/javascript")

\* an entry-script request with a query was answered with the 200 of the network
C33_Witness ==
    \E r \in Resolutions :
        /\ EntryScriptWithQuery(r) /\ pc[r] = "returned" /\ NetResolved(r)
        /\ ret[r].response.status = 200 /\ ret[r].ref = NetRef(r)

(***************************************************************************)
(* C36  Routing of requests to the origin ignores the policy header: two    *)
(* requests for the same url of the origin whose network call (if one is     *)
(* made) settles the same way get the same resolver calls and the same        *)
(* outcome - status, headers and body of the response, or the rejection -    *)
(* whatever Sw-Policy header each carries; fetchCore is not entered and the  *)
(* cache resolver is never called, also for a cache-only request.            *)
(***************************************************************************)
SameOriginRequest(r) == Handling(r) /\ startsWith(RequestUrl(r), origin)

\* status, headers and body of a response
Shape(response) == <<response.status, response.headers, response.body>>

C36_SameOriginIgnoresPolicy ==
    /\ \A r \in Resolutions :
            SameOriginRequest(r) =>
                /\ input[r] = NoInput
                /\ CacheCalls(r) = 0 /\ cacheOut[r].state = "none"
    /\ \A r1, r2 \in Resolutions :
            (/\ SameOriginRequest(r1) /\ SameOriginRequest(r2)
             /\ RequestUrl(r1) = RequestUrl(r2)
             /\ netOut[r1].state = netOut[r2].state
             /\ netOut[r1].response = netOut[r2].response
             /\ netOut[r1].reason = netOut[r2].reason) =>
                /\ pc[r1] = pc[r2]
                /\ calls[r1] = calls[r2]
                /\ ret[r1].state = ret[r2].state
                /\ ret[r1].reason = ret[r2].reason
                /\ Shape(ret[r1].response) = Shape(ret[r2].response)

\* a cache-only and a header-less request for the root document have both been
\* answered with the 200 of the network, neither having asked the cache
C36_Witness ==
    \E r1, r2 \in Resolutions :
        /\ RequestUrl(r1) = origin \o <<"/">> /\ RequestUrl(r2) = origin \o <<"/">>
        /\ caseOf(policyOf(event[r1].request)) = "cacheOnly"
        /\ event[r2].request.headers = <<>>
        /\ pc[r1] = "returned" /\ pc[r2] = "returned"
        /\ NetResolved(r1) /\ ret[r1].response.status = 200 /\ ret[r1].ref = NetRef(r1)
        /\ NetResolved(r2) /\ ret[r2].response.status = 200
        /\ CacheCalls(r1) = 0

(***************************************************************************)
(* C37  The root document is matched exactly, the other routes of the        *)
(* origin by prefix, tried in the order root, template, entry script, test   *)
(* probe: origin + "/" followed by a query gets the 404 and no network call; *)
(* a url that goes on after the template endpoint is answered by the          *)
(* template branch without any resolver call, one that goes on after the      *)
(* entry script by a network call for the entry script, one that goes on      *)
(* after the test probe by a network call for the request itself.             *)
(***************************************************************************)
\* the url of r begins with origin + path and goes on after it
GoesOnAfter(r, path) ==
    /\ Handling(r)
    /\ startsWith(RequestUrl(r), origin \o path)
    /\ Len(RequestUrl(r)) > Len(origin \o path)

C37_RootExactOthersByPrefix ==
    \A r \in Resolutions :
        /\ GoesOnAfter(r, <<"/", "?">>) =>
                /\ pc[r] = "returned" /\ ret[r].ref = NotFoundRef
                /\ ret[r].response.status = 404
                /\ NoResolverCalled(r)
        /\ GoesOnAfter(r, <<"/", "runProgram">>) =>
                /\ NoResolverCalled(r)
                /\ pc[r] = "returned" =>
                        /\ ret[r].ref \in {DocumentRef(r), ErrorRef(r)}
                        /\ ret[r].ref = DocumentRef(r) =>
                                HeaderIs(ret[r].response, "content-type", "text/html")
        /\ GoesOnAfter(r, <<"/", "secure.compiled.js">>) =>
                calls[r] = <<[fn |-> "networkFetch",
                              url |-> origin \o <<"/", "secure.compiled.js">>,
                              clientId |-> ""]>>
        /\ GoesOnAfter(r, <<"/", "test.mjs">>) =>
                /\ calls[r] = <<[fn |-> "networkFetch", url |-> RequestUrl(r),
                                 clientId |-> ""]>>
                /\ NetRejected(r) => pc[r] = "threw"

\* the root document with a query got the 404 while a url that goes on after
\* the template endpoint with a letter got the template document
C37_Witness ==
    \E r1, r2 \in Resolutions :
        /\ GoesOnAfter(r1, <<"/", "?">>) /\ pc[r1] = "returned"
        /\ ret[r1].response.status = 404
        /\ GoesOnAfter(r2, <<"/", "runProgram", "Extra">>) /\ pc[r2] = "returned"
        /\ ret[r2].ref = DocumentRef(r2) /\ ret[r2].response.status = 200

(***************************************************************************)
(* C31  Termination without timeout.  When every resolver call settles, a    *)
(* resolution that waits for one returns a response in the end.  While the   *)
(* network call a resolution awaits has not settled, the resolution stays    *)
(* where it is: it asks neither the cache nor an in-memory asset, and other   *)
(* resolutions go on.                                                         *)
(***************************************************************************)
Waiting(r) == pc[r] \in {"network", "cache"}

Completed(r) == pc[r] \in {"returned", "threw"}

C31_SettledCallsReturnAResponse ==
    \A r \in Resolutions : Waiting(r) ~> (pc[r] = "returned")

\* what is left of it when a rejected promise counts as an end: every waiting
\* resolution completes
C31_SettledCallsComplete ==
    \A r \in Resolutions : Waiting(r) ~> Completed(r)

\* a resolution that awaits the network leaves that await only by the step in
\* which the call settles: no other step completes it, asks the cache for it or
\* makes a response for it
C31_HungNetworkHangsResolution ==
    [][\A r \in Resolutions :
         (pc[r] = "network" /\ ~Settles(r)) =>
             /\ pc'[r] = "network"
             /\ calls'[r] = calls[r]
             /\ ret'[r] = ret[r]
             /\ heap'[DocumentRef(r)] = heap[DocumentRef(r)]
             /\ heap'[CacheRef(r)] = heap[CacheRef(r)]]_vars

\* one resolution still awaits the network while another, begun after it, has
\* completed
C31_OthersCompleteMeanwhile ==
    \E r1, r2 \in Resolutions :
        /\ r1 # r2 /\ pc[r1] = "network" /\ Completed(r2)
        /\ ncalls = 2

(***************************************************************************)
(* getClientFile, the cache resolver the service worker hands to             *)
(* createFetchHandler (serviceWorker/index.ts:48-72), and the getFile the    *)
(* sandbox answers its RPC with (sandboxFunctions.ts:54-62).  The promises   *)
(* of sw.clients.get and of the RPC library settle in steps of their own.    *)
(***************************************************************************)
\* every variable of the router and of fetchCore
router == <<pc, event, inMemoryDocumentHeaders, input, calls, netOut, cacheOut,
            caught, ret, logged, heap, cache, logFn, config, ncalls, events>>

\* the client ids getClientFile is called with: a client the service worker
\* controls, and the client of a navigation, which does not exist yet
LookupClientIds == ClientIds \cup ResultingClientIds

\* what the controller's getFile can resolve with
Files ==
    {[NoFile EXCEPT !.kind = k] : k \in {"null", "undefined", "string"}}
    \cup [kind : {"object"},
          body : {"ReadableStream", "ArrayBuffer", "undefined"},
          typeofType : {"string", "undefined"}, type : {<<"text/javascript">>},
          typeofLength : {"number", "string"}, length : {12}]

\* how controllerRpc.execute("getFile", url) can settle
ControllerOutcomes ==
    {[state |-> "resolved", file |-> f, reason |-> NoReason] : f \in Files}
    \cup {[state |-> "rejected", file |-> NoFile, reason |-> CacheReason]}

\* !file
falsy(file) == file.kind \in {"null", "undefined"}

\* serviceWorkerToSandboxRpc.getFile: the controller's file is handed on as it
\* is (with its body in the transfer list if there is a file), and a rejection
\* of the awaited call rejects the answer
serviceWorkerToSandboxRpc_getFile(out) ==
    IF out.state = "rejected"
    THEN [state |-> "rejected", file |-> NoFile, transfer |-> <<>>, reason |-> out.reason]
    ELSE IF falsy(out.file)
    THEN [state |-> "resolved", file |-> out.file, transfer |-> <<>>, reason |-> NoReason]
    ELSE [state |-> "resolved", file |-> out.file, transfer |-> <<out.file.body>>,
          reason |-> NoReason]

\* typeof file
typeof(file) == IF file.kind = "null" THEN "object" ELSE file.kind

\* getClientFile after the RPC has resolved with file: null unless file is an
\* object with a stream for a body, a string type and a number length
clientFileResponse(k, file) ==
    IF typeof(file) # "object" \/ file.kind = "null"
    THEN Resolved(NullRef, NoResponse)
    ELSE IF \/ file.body # "ReadableStream"
            \/ file.typeofType # "string"
            \/ file.typeofLength # "number"
    THEN Resolved(NullRef, NoResponse)
    ELSE Resolved(CacheRef(k),
                  Response(<<"file body">>, 200, "OK",
                           << <<"content-type", file.type>>,
                              <<"content-length", toString(file.length)>> >>))

\* getClientFile(url, clientId) is called and awaits sw.clients.get(clientId)
getClientFile(k) ==
    /\ clientFile[k].pc = "idle"
    /\ \E url \in Urls, clientId \in LookupClientIds :
        clientFile' = [clientFile EXCEPT ![k] =
            [NoLookup EXCEPT !.pc = "clients.get", !.url = url, !.clientId = clientId]]
    /\ UNCHANGED <<router, sandbox, messages>>

\* sw.clients.get resolves, with undefined for an id that names no client:
\* null is returned for no client, otherwise the RPC is sent and awaited
ClientsGetSettled(k) ==
    /\ clientFile[k].pc = "clients.get"
    /\ LET client == IF clientFile[k].clientId \in ClientIds
                     THEN clientFile[k].clientId ELSE ""
       IN clientFile' = [clientFile EXCEPT ![k] =
            IF client = ""
            THEN [@ EXCEPT !.pc = "settled", !.outcome = Resolved(NullRef, NoResponse)]
            ELSE [@ EXCEPT !.pc = "executeWithSource", !.client = client]]
    /\ UNCHANGED <<router, sandbox, messages>>

\* rpc.executeWithSource("getFile", client, url) settles as the sandbox's
\* getFile did; the await is in no try block
ExecuteWithSourceSettled(k) ==
    /\ clientFile[k].pc = "executeWithSource"
    /\ \E answer \in ControllerOutcomes :
        LET out == serviceWorkerToSandboxRpc_getFile(answer)
        IN clientFile' = [clientFile EXCEPT ![k] =
            [@ EXCEPT !.pc = "settled", !.file = out.file,
                      !.outcome = IF out.state = "rejected" THEN Rejected(out.reason)
                                  ELSE clientFileResponse(k, out.file)]]
    /\ UNCHANGED <<router, sandbox, messages>>

\* the caller that awaited the resolver goes on with what it settled with
FileTaken(k) ==
    /\ clientFile[k].pc = "settled"
    /\ clientFile' = [clientFile EXCEPT ![k] = NoLookup]
    /\ UNCHANGED <<router, sandbox, messages>>

NextClientFile ==
    \E k \in Lookups :
        \/ getClientFile(k)
        \/ ClientsGetSettled(k)
        \/ ExecuteWithSourceSettled(k)
        \/ FileTaken(k)

\* the service worker as it is configured, no fetch event being handled
InitClientFile ==
    /\ InitWith({"returns"}, Events)
    /\ ~config.log /\ ~cache.present

SpecClientFile == InitClientFile /\ [][NextClientFile]_vars

(***************************************************************************)
(* C34  getClientFile never rejects: it resolves to null when the client is  *)
(* unknown, when the RPC file lookup fails and when the file returned is     *)
(* malformed, and to a Response otherwise.                                   *)
(***************************************************************************)
\* the file is an object of the shape getClientFile asks for
WellFormed(file) ==
    /\ file.kind = "object" /\ file.body = "ReadableStream"
    /\ file.typeofType = "string" /\ file.typeofLength = "number"

ResolvedToNull(k) ==
    clientFile[k].outcome.state = "resolved" /\ clientFile[k].outcome.ref = NullRef

ResolvedToResponse(k) ==
    /\ clientFile[k].outcome.state = "resolved"
    /\ clientFile[k].outcome.ref # NullRef
    /\ clientFile[k].outcome.response.status = 200

C34_GetClientFileNeverRejects ==
    \A k \in Lookups :
        clientFile[k].pc = "settled" =>
            /\ clientFile[k].outcome.state # "rejected"
            /\ IF clientFile[k].client # "" /\ WellFormed(clientFile[k].file)
               THEN ResolvedToResponse(k) ELSE ResolvedToNull(k)

\* what holds of it: a call that did not reject resolved to null for an unknown
\* client and for a file that is not of the shape, and to a Response otherwise
C34_NullOrResponseUnlessRejected ==
    \A k \in Lookups :
        (clientFile[k].pc = "settled" /\ clientFile[k].outcome.state # "rejected") =>
            IF clientFile[k].client # "" /\ WellFormed(clientFile[k].file)
            THEN ResolvedToResponse(k) ELSE ResolvedToNull(k)

\* the RPC rejected and so did getClientFile
C34_RpcRejected ==
    \E k \in Lookups :
        /\ clientFile[k].pc = "settled" /\ clientFile[k].client # ""
        /\ clientFile[k].outcome = Rejected(CacheReason)

(***************************************************************************)
(* The sandbox document: its entry script (part_003) and the RPC to the      *)
(* controller in the top window (sandboxFunctions.ts:30-52).  main runs from *)
(* one await to the next; the promises it awaits settle in steps of their    *)
(* own.  A call of controllerRpc.execute settles when the RPC library's      *)
(* handler is given the answer to it.                                        *)
(***************************************************************************)
\* message events taken into account
MaxMessages == 3

\* window.top, and the windows a message event can come from
top == "top"
Sources == {top, "self", "frame"}
\* what a message can hold for the RPC library: the answer to the call that is
\* awaited, an error for it, or a call of the sandbox's own ping
MessageData == {"response", "errorResponse", "ping"}
WindowMessageEvents == [source : Sources, data : MessageData]

\* how the document can be embedded
Embeddings == {"frame of top", "frame of a frame", "top itself"}

\* a listener that hands every message event on
callback_AnySource(ev) == <<[data |-> ev.data]>>

\* callback: the calls of the RPC library's handler that a message event makes
callback(ev) ==
    IF ev.source # top THEN <<>> ELSE <<[data |-> ev.data]>>

\* controllerRpc.execute(name): the call is posted to the top window
execute(s, name) == [s EXCEPT !.executed = Append(@, name)]

\* main throws, or the module's evaluation does
throw(s) == [s EXCEPT !.pc = "threw"]

\* the calls main awaits
awaited == {"signalFatalError", "getInitialState", "secureContextEstablished"}

\* a main that goes on to the import without awaiting secureContextEstablished
Resume_SecureContextNotAwaited(s, name) ==
    LET t == [s EXCEPT !.resolved = @ \cup {name}]
    IN IF name = "signalFatalError" THEN throw(t)
       ELSE [execute(t, "secureContextEstablished") EXCEPT !.pc = "import"]

\* main goes on after the awaited call name has resolved
Resume(s, name) ==
    LET t == [s EXCEPT !.resolved = @ \cup {name}]
    IN IF name = "signalFatalError" THEN throw(t)
       ELSE IF name = "getInitialState"
       THEN [execute(t, "secureContextEstablished") EXCEPT
                !.pc = "secureContextEstablished"]
       ELSE [t EXCEPT !.pc = "import"]

\* main goes on after Promise.all has resolved
AfterPromiseAll(s) ==
    IF s.ready /\ s.registered
    THEN [execute(s, "getInitialState") EXCEPT !.pc = "getInitialState"]
    ELSE s

\* the entry script is evaluated: the embedding checks, then main() up to its
\* first await
Load ==
    /\ sandbox.pc = "load"
    /\ \E embedding \in Embeddings, serviceWorker \in BOOLEAN :
        sandbox' =
            IF embedding # "frame of top" THEN throw(sandbox)
            ELSE IF ~serviceWorker
            THEN [execute(sandbox, "signalFatalError") EXCEPT !.pc = "signalFatalError"]
            ELSE [sandbox EXCEPT !.pc = "Promise.all"]
    /\ UNCHANGED <<router, clientFile, messages>>

\* navigator.serviceWorker.ready resolves
ReadyResolved ==
    /\ sandbox.pc = "Promise.all" /\ ~sandbox.ready
    /\ sandbox' = AfterPromiseAll([sandbox EXCEPT !.ready = TRUE])
    /\ UNCHANGED <<router, clientFile, messages>>

\* navigator.serviceWorker.register(..) settles; its rejection rejects Promise.all
RegisterSettled ==
    /\ sandbox.pc = "Promise.all" /\ ~sandbox.registered
    /\ \E registers \in BOOLEAN :
        sandbox' = IF registers
                   THEN AfterPromiseAll([sandbox EXCEPT !.registered = TRUE])
                   ELSE throw(sandbox)
    /\ UNCHANGED <<router, clientFile, messages>>

\* a message event reaches the window: callback runs, and the awaited call
\* settles if the handler is given its answer
MessageArrives ==
    /\ messages.arrived < MaxMessages
    /\ \E ev \in WindowMessageEvents :
        LET handled == callback(ev)
        IN /\ messages' = [arrived |-> messages.arrived + 1,
                           delivered |-> messages.delivered
                                \o (IF handled = <<>> THEN <<>> ELSE <<ev>>)]
           /\ sandbox' =
                IF handled = <<>> \/ sandbox.pc \notin awaited THEN sandbox
                ELSE IF handled[1].data = "response" THEN Resume(sandbox, sandbox.pc)
                ELSE IF handled[1].data = "errorResponse" THEN throw(sandbox)
                ELSE sandbox
    /\ UNCHANGED <<router, clientFile>>

\* import(url) settles: no module, a module without main, or one with main,
\* which is called
ImportSettled ==
    /\ sandbox.pc = "import"
    /\ \E script \in {"failed", "no main", "module"} :
        sandbox' =
            IF script = "module"
            THEN [sandbox EXCEPT !.script = script, !.mainCalls = @ + 1, !.pc = "done"]
            ELSE throw(execute([sandbox EXCEPT !.script = script], "signalFatalError"))
    /\ UNCHANGED <<router, clientFile, messages>>

NextSandbox ==
    \/ Load
    \/ ReadyResolved
    \/ RegisterSettled
    \/ MessageArrives
    \/ ImportSettled

\* the sandbox document is about to run its entry script; nothing is asked of
\* the service worker
InitSandbox ==
    /\ InitWith({"returns"}, Events)
    /\ ~config.log /\ ~cache.present

SpecSandbox == InitSandbox /\ [][NextSandbox]_vars

(***************************************************************************)
(* C38  The extension module is imported and its main called only after the  *)
(* service worker is ready and getInitialState and secureContextEstablished  *)
(* have resolved; main is called at most once; if the import fails or the     *)
(* module has no main, signalFatalError is sent to the controller and main    *)
(* is never called.                                                           *)
(***************************************************************************)
C38_MainOnlyInSecureContext ==
    /\ (sandbox.pc = "import" \/ sandbox.script # "none" \/ sandbox.mainCalls > 0) =>
            /\ sandbox.ready /\ sandbox.registered
            /\ {"getInitialState", "secureContextEstablished"} \subseteq sandbox.resolved
    /\ sandbox.mainCalls <= 1
    /\ sandbox.mainCalls = 1 => sandbox.script = "module"
    /\ sandbox.script \in {"failed", "no main"} =>
            /\ sandbox.mainCalls = 0
            /\ sandbox.executed # <<>>
            /\ sandbox.executed[Len(sandbox.executed)] = "signalFatalError"

\* main was called, after a message from a window other than top was dropped
C38_Witness ==
    /\ sandbox.mainCalls = 1
    /\ messages.arrived > Len(messages.delivered)

(***************************************************************************)
(* C39  Only message events whose source is the top window are handed to     *)
(* the handler of controllerRpc.                                              *)
(***************************************************************************)
C39_OnlyTopIsHeard ==
    \A i \in 1..Len(messages.delivered) : messages.delivered[i].source = top

\* an answer from a window other than top arrived and was dropped while main
\* awaited it, and one from top was handed on
C39_Witness ==
    /\ messages.arrived > Len(messages.delivered)
    /\ Len(messages.delivered) > 0
    /\ "getInitialState" \in sandbox.resolved

====
